---- MODULE Spec2Model ----
(***************************************************************************)
(* A model of the CL anonymous-credential prover of libindy-crypto         *)
(* (src/libindy-crypto/src/cl/prover.rs).                                  *)
(*                                                                         *)
(* Arithmetic.  BigNumber values are integers.  The pairing groups G1, G2  *)
(* and GT are modelled by the discrete logarithms of their elements with   *)
(* respect to fixed generators, i.e. by Z_Q: point addition is + mod Q,    *)
(* scalar multiplication is * mod Q, the pairing of P and R is P*R mod Q,  *)
(* the product in GT is + mod Q, pow is * mod Q and inverse is negation.   *)
(* This is a bilinear map, so every pairing equation the code evaluates is *)
(* evaluated here the way the code evaluates it.                           *)
(*                                                                         *)
(* Option<T> is a set with at most one element: None is {}, Some(x) is {x}.*)
(* Result<T,E> is a record with an "err" field; err = "Ok" on success.     *)
(***************************************************************************)
EXTENDS Integers, Sequences, FiniteSets, TLC

VARIABLES
    pub_key,    \* IssuerPublicKey: p_key and the optional r_key
    bmsd,       \* BlindedMasterSecretData: v_prime and the optional vr_prime
    claim,      \* the prover's ClaimSignature: p_claim and the optional r_claim
    r_reg,      \* RevocationRegistryPublic: acc {acc, v, max_claim_num}, key {z}, tails
    pcs,        \* record of the last process_claim_signature call
    builder,    \* ProofBuilder: m1_tilde, init_proofs, c_list, tau_list
    calls,      \* history of the add_sub_proof_request calls on the builder
    fin,        \* record of the finalize calls on the builder
    ge,         \* record of the last stand-alone _init_ge_proof call
    wit,        \* record of the last stand-alone _update_non_revocation_claim call
    rng,        \* state of the process-wide random source
    bms,        \* record of the last blinded_master_secret call
    ctau        \* record of the last C-list / tau-list computation on a revocation claim

vars == <<pub_key, bmsd, claim, r_reg, pcs, builder, calls, fin, ge, wit, rng, bms, ctau>>

-----------------------------------------------------------------------------
(* Bounds of the model *)

\* order of the pairing groups (stands for the curve's group order q)
GroupOrder == 5
\* the primary public key's modulus n
Modulus == 35
\* number of process_claim_signature calls in one behaviour
MaxProcess == 2
\* number of process_claim_signature calls while a proof is being built
MaxProcessInProof == 1
\* number of add_sub_proof_request calls on one builder
MaxCalls == 2
\* number of finalize calls on one builder
MaxFinalize == 1
\* number of accumulator changes in one behaviour
MaxAccChanges == 2
\* number of accumulator changes while a proof is being built
MaxAccChangesInProof == 1
\* number of initial states of the random source
MaxSeed == 1
\* modulus of the modelled hash
HashRange == 7
\* the draws of the stand-alone blinded_master_secret and C/tau computations
MaxBlindSeed == 7
MaxGeSeed == 3
MaxRequestCalls == 2
MaxProofCalls == 1
MaxAccChangesInRequest == 1
MaxTauSeed == 2

-----------------------------------------------------------------------------
(* Option and Result *)

None == {}
Some(x) == {x}
IsSome(o) == o # {}
Unwrap(o) == CHOOSE x \in o : TRUE

OkS == "Ok"
IssuerErr == "InvalidStructure: Issuer is sending incorrect data"
RevokedErr == "InvalidState: Can not update Witness. Claim revoked."
PredicateErr == "InvalidStructure: Predicate is not satisfied"
TailsErr == "InvalidStructure: Key not found in tails"
ValueNotFoundErr == "InvalidStructure: Value by key not found in claim_values"
InvalidFormatErr == "InvalidStructure: Value by key has invalid format"
MtildeErr == "InvalidStructure: Value by key not found in eq_proof.mtilde"
InitMtildeErr == "InvalidStructure: Value by key not found in init_proof.mtilde"
AttrValueErr == "InvalidStructure: Value by key not found in attributes_values"
EncodedErr == "InvalidStructure: Encoded value not found"
EqMErr == "InvalidStructure: Value by key not found in eq_proof.m"
PanicOverflow == "panic: arithmetic overflow"

-----------------------------------------------------------------------------
(* Group and big-number primitives *)

q == GroupOrder

\* GroupOrderElement::add_mod, mul_mod, mod_neg
add_mod(a, b) == (a + b) % q
mul_mod(a, b) == (a * b) % q
mod_neg(a) == (q - (a % q)) % q

\* PointG1 / PointG2: add, sub, mul by a scalar, neg, the point at infinity
PointAdd(p, r) == (p + r) % q
PointSub(p, r) == (p + q - (r % q)) % q
PointMul(p, k) == (p * k) % q
PointNeg(p) == (q - (p % q)) % q
PointInf == 0

\* Pair::pair, mul, pow, inverse
Pair(p, r) == (p * r) % q
PairMul(x, y) == (x + y) % q
PairPow(x, k) == (x * k) % q
PairInverse(x) == (q - (x % q)) % q

\* BigNumber::mod_exp for a non-negative exponent
RECURSIVE mod_exp(_, _, _)
mod_exp(b, e, n) ==
    IF e = 0 THEN 1 % n
    ELSE IF e % 2 = 0 THEN mod_exp((b * b) % n, e \div 2, n)
    ELSE (b * mod_exp(b, e - 1, n)) % n

\* 2^k
RECURSIVE Pow2(_)
Pow2(k) == IF k = 0 THEN 1 ELSE 2 * Pow2(k - 1)

\* BigNumber::from_bytes(GroupOrderElement::to_bytes(x)): the scalar's value
group_element_to_bignum(x) == x
\* GroupOrderElement::from_bytes(BigNumber::to_bytes(x)): the big number's bytes
\* read as a scalar; every later mod-q operation reduces it
bignum_to_group_element(x) == x % q

-----------------------------------------------------------------------------
(* The issuer's public data the prover borrows read-only *)

Attrs == {"name", "age"}

\* IssuerPrimaryPublicKey (n, s, z, rms, rctxt, r)
PrimaryKey ==
    [n |-> Modulus, s |-> 4, z |-> 9, rms |-> 11, rctxt |-> 16,
     r |-> [a \in Attrs |-> IF a = "name" THEN 29 ELSE 3]]

\* IssuerRevocationPublicKey (g, g_dash, h, h0, h1, h2, htilde, h_cap, u, pk, y)
RevocationKey ==
    [g |-> 1, g_dash |-> 1, h |-> 2, h0 |-> 3, h1 |-> 4, h2 |-> 2,
     htilde |-> 3, h_cap |-> 1, u |-> 2, pk |-> 2, y |-> 2]

\* the registry's capacity (max_claim_num)
MaxClaimNum == 3

\* the tail point of index k
TailPoint(k) == mod_exp(2, k, q)

\* RevocationTailsPublic.tails_dash with every index 1..2*max_claim_num
FullTails == [k \in 1..(2 * MaxClaimNum) |-> TailPoint(k)]

\* RevocationRegistryPublic at issuance
IssuedRegistry ==
    [acc |-> [acc |-> 3, v |-> {1, 2, 3}, max_claim_num |-> MaxClaimNum],
     key |-> [z |-> 2],
     tails |-> [tails_dash |-> FullTails]]

\* PrimaryClaimSignature as the issuer sends it for the blinding v' = 20, the
\* master secret 5 and the attribute values name = 12, age = 28: with v = 50
\* it satisfies a^e * s^v * rms^ms * rctxt^m_2 * r_name^12 * r_age^28 = z (mod n)
IssuedPrimaryClaim == [m_2 |-> 1, a |-> 4, e |-> 7, v |-> 30]

\* NonRevocationClaimSignature as the issuer sends it for the blinding vr' = 2
IssuedRevocationClaim ==
    [sigma |-> 1, c |-> 1, vr_prime_prime |-> 3,
     witness |-> [sigma_i |-> 2, u_i |-> 2, g_i |-> 1, omega |-> 1, v |-> {1, 2, 3}],
     g_i |-> 1, i |-> 1, m2 |-> 1]

\* what a careless or malicious issuer may send instead
ForgedRevocationClaims ==
    { [IssuedRevocationClaim EXCEPT !.witness.omega = 2],
      [IssuedRevocationClaim EXCEPT !.witness.g_i = 2],
      [IssuedRevocationClaim EXCEPT !.witness.sigma_i = 3],
      [IssuedRevocationClaim EXCEPT !.sigma = 2] }

-----------------------------------------------------------------------------
(* Prover::process_claim_signature *)

\* Prover::_process_primary_claim: p_claim.v = v_prime.add(&p_claim.v)
process_primary_claim_mod(p_claim, v_prime) ==
    [p_claim EXCEPT !.v = (v_prime + p_claim.v) % Modulus]

process_primary_claim(p_claim, v_prime) ==
    [p_claim EXCEPT !.v = v_prime + p_claim.v]

\* the three values compared by Prover::_test_witness_credential
z_calc(r_claim, r_pub_key, reg) ==
    PairMul(Pair(r_claim.witness.g_i, reg.acc.acc),
            PairInverse(Pair(r_pub_key.g, r_claim.witness.omega)))

pair_gg_calc(r_claim, r_pub_key) ==
    Pair(PointAdd(r_pub_key.pk, r_claim.g_i), r_claim.witness.sigma_i)

pair_gg(r_pub_key) == Pair(r_pub_key.g, r_pub_key.g_dash)

pair_h1(r_claim, r_pub_key) ==
    Pair(r_claim.sigma, PointAdd(r_pub_key.y, PointMul(r_pub_key.h_cap, r_claim.c)))

pair_h2(r_claim, r_pub_key, r_cnxt_m2) ==
    LET m2 == bignum_to_group_element(r_cnxt_m2)
    IN Pair(PointAdd(PointAdd(PointAdd(r_pub_key.h0, PointMul(r_pub_key.h1, m2)),
                              PointMul(r_pub_key.h2, r_claim.vr_prime_prime)),
                     r_claim.g_i),
            r_pub_key.h_cap)

\* Prover::_test_witness_credential.  "checked" lists the comparisons the call
\* evaluated before it returned.
test_witness_credential_skip(r_claim, r_pub_key, reg, r_cnxt_m2) ==
    IF z_calc(r_claim, r_pub_key, reg) # reg.key.z
    THEN [err |-> IssuerErr, checked |-> {"z"}]
    ELSE IF pair_gg_calc(r_claim, r_pub_key) # pair_gg(r_pub_key)
    THEN [err |-> IssuerErr, checked |-> {"z", "gg"}]
    ELSE [err |-> OkS, checked |-> {"z", "gg"}]

test_witness_credential(r_claim, r_pub_key, reg, r_cnxt_m2) ==
    IF z_calc(r_claim, r_pub_key, reg) # reg.key.z
    THEN [err |-> IssuerErr, checked |-> {"z"}]
    ELSE IF pair_gg_calc(r_claim, r_pub_key) # pair_gg(r_pub_key)
    THEN [err |-> IssuerErr, checked |-> {"z", "gg"}]
    ELSE IF pair_h1(r_claim, r_pub_key) # pair_h2(r_claim, r_pub_key, r_cnxt_m2)
    THEN [err |-> IssuerErr, checked |-> {"z", "gg", "h"}]
    ELSE [err |-> OkS, checked |-> {"z", "gg", "h"}]

process_non_revocation_claim_add(r_claim, vr_prime, r_pub_key, reg) ==
    LET r_cnxt_m2 == group_element_to_bignum(r_claim.m2)
        unblinded == [r_claim EXCEPT !.vr_prime_prime = vr_prime + r_claim.vr_prime_prime]
        t == test_witness_credential(unblinded, r_pub_key, reg, r_cnxt_m2)
    IN [r_claim |-> unblinded, err |-> t.err, checked |-> t.checked]

\* Prover::_process_non_revocation_claim: the claim is updated in place before
\* the check, so the update stays when the check fails
process_non_revocation_claim(r_claim, vr_prime, r_pub_key, reg) ==
    LET r_cnxt_m2 == group_element_to_bignum(r_claim.m2)
        unblinded == [r_claim EXCEPT !.vr_prime_prime = add_mod(vr_prime, r_claim.vr_prime_prime)]
        t == test_witness_credential(unblinded, r_pub_key, reg, r_cnxt_m2)
    IN [r_claim |-> unblinded, err |-> t.err, checked |-> t.checked]

\* the condition of the if-let of process_claim_signature
AllRevocationInputs(c, data, pk, reg_opt) ==
    IsSome(c.r_claim) /\ IsSome(data.vr_prime) /\ IsSome(pk.r_key) /\ IsSome(reg_opt)

process_claim_signature_rolled_back(c, data, pk, reg_opt) ==
    LET p == process_primary_claim(c.p_claim, data.v_prime)
    IN IF AllRevocationInputs(c, data, pk, reg_opt)
       THEN LET nr == process_non_revocation_claim(Unwrap(c.r_claim), Unwrap(data.vr_prime),
                                                   Unwrap(pk.r_key), Unwrap(reg_opt))
            IN [claim |-> IF nr.err = OkS THEN [p_claim |-> p, r_claim |-> Some(nr.r_claim)] ELSE c,
                err |-> nr.err, ran_nr |-> TRUE, checked |-> nr.checked]
       ELSE [claim |-> [p_claim |-> p, r_claim |-> c.r_claim],
             err |-> OkS, ran_nr |-> FALSE, checked |-> {}]

\* Prover::process_claim_signature: the claim after the call, the result, and
\* whether _process_non_revocation_claim ran
process_claim_signature(c, data, pk, reg_opt) ==
    LET p == process_primary_claim(c.p_claim, data.v_prime)
    IN IF AllRevocationInputs(c, data, pk, reg_opt)
       THEN LET nr == process_non_revocation_claim(Unwrap(c.r_claim), Unwrap(data.vr_prime),
                                                   Unwrap(pk.r_key), Unwrap(reg_opt))
            IN [claim |-> [p_claim |-> p, r_claim |-> Some(nr.r_claim)],
                err |-> nr.err, ran_nr |-> TRUE, checked |-> nr.checked]
       ELSE [claim |-> [p_claim |-> p, r_claim |-> c.r_claim],
             err |-> OkS, ran_nr |-> FALSE, checked |-> {}]

\* the caller passes the registry or None
RegistryArg(given) == IF given THEN Some(r_reg) ELSE None

ProcessClaimSignature(given) ==
    /\ pcs.n < MaxProcess
    /\ LET out == process_claim_signature(claim, bmsd, pub_key, RegistryArg(given))
       IN /\ claim' = out.claim
          /\ pcs' = [n |-> pcs.n + 1, r_reg_given |-> given, pre |-> claim, issued |-> pcs.issued,
                     err |-> out.err, ran_nr |-> out.ran_nr, checked |-> out.checked]
    /\ UNCHANGED <<pub_key, bmsd, r_reg, builder, calls, fin, ge, wit, rng, bms, ctau>>

-----------------------------------------------------------------------------
(* ProofBuilder::_update_non_revocation_claim *)

\* the orders in which a HashSet's iterator may yield the elements of S
Orders(S) ==
    {o \in [1..Cardinality(S) -> S] : \A x \in S : \E t \in 1..Cardinality(S) : o[t] = x}

TailKeyWithoutOne(max_claim_num, j, i) ==
    [key |-> max_claim_num - j + i, wrapped |-> max_claim_num < j]

\* accum.max_claim_num + 1 - j + claim.i, evaluated left to right in u32.
\* "wrapped" tells that the subtraction went below zero: a build with overflow
\* checks panics there, a build without them wraps, and the wrapped value
\* plus claim.i is the mathematical result again when that is not negative.
TailKey(max_claim_num, j, i) ==
    [key |-> max_claim_num + 1 - j + i, wrapped |-> max_claim_num + 1 < j]

\* tails.get(&key) for the key computed above.  A negative "key" stands for the
\* wrapped u32 value 2^32 + key, which no tails map of the model holds.
TailFound(tails, k) == k.key \in DOMAIN tails

\* the loops of lines 269-284 for one iteration order of v_old_minus_new
omega_for_order(order, omega, tails, max_claim_num, i) ==
    LET n == Len(order)
        tail(t) == tails[TailKey(max_claim_num, order[t], i).key]
        denom[t \in 0..n] == IF t = 0 THEN PointInf ELSE PointAdd(denom[t - 1], tail(t))
        omega_denom == denom[n]
        num[t \in 0..n] == IF t = 0 THEN PointInf ELSE PointAdd(num[t - 1], tail(t))
        new_omega[t \in 0..n] ==
            IF t = 0 THEN omega
            ELSE PointAdd(new_omega[t - 1], PointSub(num[t], omega_denom))
    IN new_omega[n]

StoreWitnessOmegaOnly(r_claim, v, omega) ==
    [r_claim EXCEPT !.witness.omega = omega]

\* what the update stores in claim.witness (lines 286-287)
StoreWitness(r_claim, v, omega) ==
    [r_claim EXCEPT !.witness.v = v, !.witness.omega = omega]


update_witness_stored_early(r_claim, accum, tails) ==
    IF r_claim.witness.v = accum.v
    THEN {[r_claim |-> r_claim, err |-> OkS]}
    ELSE LET v_old_minus_new == r_claim.witness.v \ accum.v
             keys == {TailKey(accum.max_claim_num, j, r_claim.i) : j \in v_old_minus_new}
         IN IF \E k \in keys : ~TailFound(tails, k)
            THEN {[r_claim |-> [r_claim EXCEPT !.witness.v = accum.v], err |-> TailsErr]}
            ELSE {[r_claim |-> StoreWitness(r_claim, accum.v,
                                  omega_for_order(o, r_claim.witness.omega, tails,
                                                  accum.max_claim_num, r_claim.i)),
                   err |-> OkS] : o \in Orders(v_old_minus_new)}

\* the update proper (lines 266-288), for a claim whose index is in accum.v
update_witness(r_claim, accum, tails) ==
    IF r_claim.witness.v = accum.v
    THEN {[r_claim |-> r_claim, err |-> OkS]}
    ELSE LET v_old_minus_new == r_claim.witness.v \ accum.v
             keys == {TailKey(accum.max_claim_num, j, r_claim.i) : j \in v_old_minus_new}
         IN (IF \E k \in keys : k.wrapped
             THEN {[r_claim |-> r_claim, err |-> PanicOverflow]} ELSE {})
            \cup
            (IF \E k \in keys : ~TailFound(tails, k)
             THEN {[r_claim |-> r_claim, err |-> TailsErr]}
             ELSE {[r_claim |-> StoreWitness(r_claim, accum.v,
                                   omega_for_order(o, r_claim.witness.omega, tails,
                                                   accum.max_claim_num, r_claim.i)),
                    err |-> OkS] : o \in Orders(v_old_minus_new)})

update_non_revocation_claim_unchanged_first(r_claim, accum, tails) ==
    IF r_claim.witness.v = accum.v
    THEN {[r_claim |-> r_claim, err |-> OkS]}
    ELSE IF r_claim.i \notin accum.v
    THEN {[r_claim |-> r_claim, err |-> RevokedErr]}
    ELSE update_witness(r_claim, accum, tails)

\* ProofBuilder::_update_non_revocation_claim: the set of possible outcomes
\* (the claim after the call and the result), one per iteration order of the
\* HashSet and per build mode
update_non_revocation_claim(r_claim, accum, tails) ==
    IF r_claim.i \notin accum.v
    THEN {[r_claim |-> r_claim, err |-> RevokedErr]}
    ELSE update_witness(r_claim, accum, tails)

\* the value of the accumulator for the set V of unrevoked indices
AccValue(V, max_claim_num) ==
    LET idx == CHOOSE o \in Orders(V) : TRUE
        sum[t \in 0..Cardinality(V)] ==
            IF t = 0 THEN PointInf
            ELSE PointAdd(sum[t - 1], TailPoint(max_claim_num + 1 - idx[t]))
    IN sum[Cardinality(V)]

\* the issuer revokes index j or (re)issues index j: the published accumulator changes
AccumulatorChange(j) ==
    /\ wit.changes < MaxAccChanges
    /\ LET V == IF j \in r_reg.acc.v THEN r_reg.acc.v \ {j} ELSE r_reg.acc.v \cup {j}
       IN r_reg' = [r_reg EXCEPT !.acc.v = V,
                                 !.acc.acc = AccValue(V, r_reg.acc.max_claim_num)]
    /\ wit' = [wit EXCEPT !.changes = wit.changes + 1]
    /\ UNCHANGED <<pub_key, bmsd, claim, pcs, builder, calls, fin, ge, rng, bms, ctau>>

\* a stand-alone call of _update_non_revocation_claim on the claim held in wit
UpdateNonRevocationClaim ==
    /\ wit.n < MaxCalls
    /\ \E out \in update_non_revocation_claim(wit.r_claim, r_reg.acc, r_reg.tails.tails_dash) :
          wit' = [wit EXCEPT !.n = wit.n + 1, !.pre = wit.r_claim, !.accum = r_reg.acc,
                             !.r_claim = out.r_claim, !.err = out.err]
    /\ UNCHANGED <<pub_key, bmsd, claim, r_reg, pcs, builder, calls, fin, ge, rng, bms, ctau>>

-----------------------------------------------------------------------------
(* Protocol constants (scaled down) and the random source *)

LARGE_MASTER_SECRET == 3
LARGE_VPRIME == 3
LARGE_ETILDE == 3
LARGE_VTILDE == 4
LARGE_MVECT == 3
LARGE_M2_TILDE == 3
LARGE_UTILDE == 2
LARGE_RTILDE == 2
LARGE_ALPHATILDE == 3
LARGE_E_START == 2
ITERATION == 4

\* the i32 range of parse::<i32>() and of "let delta: i32"
MaxI32 == 2147483647
MinI32 == (-MaxI32) - 1

\* bn_rand(bits): the draw number "slot" of the call whose random source is in
\* state "seed"; a value of at most "bits" bits
bn_rand(seed, slot, bits) == (seed * 11 + slot * 7 + 3) % Pow2(bits)

\* GroupOrderElement::new(): a scalar in [0, q)
new_scalar(seed, slot) == (seed * 3 + slot * 2 + 1) % q

\* the keys "0".."3" and "DELTA" of the u, r, t maps
K(i) == ToString(i)
IterKeys == {K(i) : i \in 0..(ITERATION - 1)}
DELTA == "DELTA"

\* an entry of c_list / tau_list: the bytes of a big number or of a group element
BnBytes(x) == [t |-> "bn", v |-> x]
G1Bytes(x) == [t |-> "g1", v |-> x]
G2Bytes(x) == [t |-> "g2", v |-> x]
GtBytes(x) == [t |-> "gt", v |-> x]

-----------------------------------------------------------------------------
(* Prover::blinded_master_secret *)

generate_blinded_primary_master_secret_unreduced(p_pub_key, ms, seed) ==
    LET v_prime == bn_rand(seed, 0, LARGE_VPRIME)
        u == mod_exp(p_pub_key.s, v_prime, p_pub_key.n) * mod_exp(p_pub_key.rms, ms.ms, p_pub_key.n)
    IN [u |-> u, v_prime |-> v_prime]

\* Prover::_generate_blinded_primary_master_secret
generate_blinded_primary_master_secret(p_pub_key, ms, seed) ==
    LET v_prime == bn_rand(seed, 0, LARGE_VPRIME)
        u == (mod_exp(p_pub_key.s, v_prime, p_pub_key.n)
                * mod_exp(p_pub_key.rms, ms.ms, p_pub_key.n)) % p_pub_key.n
    IN [u |-> u, v_prime |-> v_prime]

\* Prover::_generate_blinded_revocation_master_secret
generate_blinded_revocation_master_secret(r_pub_key, seed) ==
    LET vr_prime == new_scalar(seed, 1)
    IN [ur |-> PointMul(r_pub_key.h2, vr_prime), vr_prime |-> vr_prime]

\* Prover::blinded_master_secret: the pair (BlindedMasterSecret, BlindedMasterSecretData)
blinded_master_secret(pk, ms, seed) ==
    LET blinded_primary_master_secret == generate_blinded_primary_master_secret(pk.p_key, ms, seed)
        blinded_revocation_master_secret ==
            IF IsSome(pk.r_key)
            THEN Some(generate_blinded_revocation_master_secret(Unwrap(pk.r_key), seed))
            ELSE None
    IN [secret |-> [u |-> blinded_primary_master_secret.u,
                    ur |-> {d.ur : d \in blinded_revocation_master_secret}],
        data |-> [v_prime |-> blinded_primary_master_secret.v_prime,
                  vr_prime |-> {d.vr_prime : d \in blinded_revocation_master_secret}]]

-----------------------------------------------------------------------------
(* Primary proof init *)

\* helpers::calc_teq
calc_teq(pk, a_prime, e_tilde, v_tilde, m_tilde, m1_tilde, m2_tilde, unrevealed_attrs) ==
    LET order == CHOOSE o \in Orders(unrevealed_attrs) : TRUE
        prod[t \in 0..Cardinality(unrevealed_attrs)] ==
            IF t = 0 THEN mod_exp(a_prime, e_tilde, pk.n)
            ELSE (prod[t - 1] * mod_exp(pk.r[order[t]], m_tilde[order[t]], pk.n)) % pk.n
    IN (prod[Cardinality(unrevealed_attrs)]
          * mod_exp(pk.s, v_tilde, pk.n)
          * mod_exp(pk.rms, m1_tilde, pk.n)
          * mod_exp(pk.rctxt, m2_tilde, pk.n)) % pk.n

\* helpers::get_mtilde: one draw per unrevealed attribute
AttrSlot(a) == IF a = "name" THEN 5 ELSE IF a = "age" THEN 6 ELSE 7
get_mtilde(unrevealed_attrs, seed) ==
    [a \in unrevealed_attrs |-> bn_rand(seed, AttrSlot(a), LARGE_MVECT)]

\* claim_schema.attrs.difference(&sub_proof_request.revealed_attrs)
UnrevealedAttrsOfSchema(claim_schema, sub_proof_request) == claim_schema.attrs

UnrevealedAttrs(claim_schema, sub_proof_request) ==
    claim_schema.attrs \ sub_proof_request.revealed_attrs

init_eq_proof_own_m2(pk, c1, claim_schema, sub_proof_request, m1_tilde, m2_t, seed) ==
    LET m2_tilde == bn_rand(seed, 1, LARGE_MVECT)
        r == bn_rand(seed, 2, LARGE_VPRIME)
        e_tilde == bn_rand(seed, 3, LARGE_ETILDE)
        v_tilde == bn_rand(seed, 4, LARGE_VTILDE)
        unrevealed_attrs == UnrevealedAttrs(claim_schema, sub_proof_request)
        m_tilde == get_mtilde(unrevealed_attrs, seed)
        a_prime == (mod_exp(pk.s, r, pk.n) * c1.a) % pk.n
        v_prime == c1.v - c1.e * r
        e_prime == c1.e - Pow2(LARGE_E_START)
        t == calc_teq(pk, a_prime, e_tilde, v_tilde, m_tilde, m1_tilde, m2_tilde, unrevealed_attrs)
    IN [a_prime |-> a_prime, t |-> t, e_tilde |-> e_tilde, e_prime |-> e_prime,
        v_tilde |-> v_tilde, v_prime |-> v_prime, m_tilde |-> m_tilde,
        m1_tilde |-> m1_tilde, m2_tilde |-> m2_tilde, m2 |-> c1.m_2]

\* ProofBuilder::_init_eq_proof
init_eq_proof(pk, c1, claim_schema, sub_proof_request, m1_tilde, m2_t, seed) ==
    LET m2_tilde == IF IsSome(m2_t) THEN Unwrap(m2_t) ELSE bn_rand(seed, 1, LARGE_MVECT)
        r == bn_rand(seed, 2, LARGE_VPRIME)
        e_tilde == bn_rand(seed, 3, LARGE_ETILDE)
        v_tilde == bn_rand(seed, 4, LARGE_VTILDE)
        unrevealed_attrs == UnrevealedAttrs(claim_schema, sub_proof_request)
        m_tilde == get_mtilde(unrevealed_attrs, seed)
        a_prime == (mod_exp(pk.s, r, pk.n) * c1.a) % pk.n
        v_prime == c1.v - c1.e * r
        e_prime == c1.e - Pow2(LARGE_E_START)
        t == calc_teq(pk, a_prime, e_tilde, v_tilde, m_tilde, m1_tilde, m2_tilde, unrevealed_attrs)
    IN [a_prime |-> a_prime, t |-> t, e_tilde |-> e_tilde, e_prime |-> e_prime,
        v_tilde |-> v_tilde, v_prime |-> v_prime, m_tilde |-> m_tilde,
        m1_tilde |-> m1_tilde, m2_tilde |-> m2_tilde, m2 |-> c1.m_2]

\* "attr_value - value" in i32 (line 355): the possible values of delta.  When
\* the difference leaves the i32 range, a build with overflow checks panics and
\* a build without them wraps modulo 2^32.
i32_sub(a, b) ==
    IF b < 0 /\ a > MaxI32 + b
    THEN {[err |-> PanicOverflow, v |-> 0],
          [err |-> OkS, v |-> (a - MaxI32 - 1) + (MinI32 - b)]}
    ELSE IF b > 0 /\ a < MinI32 + b
    THEN {[err |-> PanicOverflow, v |-> 0],
          [err |-> OkS, v |-> (a - MinI32) + (MaxI32 - b) + 1]}
    ELSE {[err |-> OkS, v |-> a - b]}

\* lines 347-359 of _init_ge_proof: the attribute lookup, the parse, delta and
\* its sign test.  claim_values.wide names the attributes whose BigNumber lies
\* outside the i32 range, for which parse::<i32>() fails; attrs_values holds
\* the values of the others.
ge_delta(claim_values, predicate) ==
    LET k == predicate.attr_name
    IN IF k \notin DOMAIN claim_values.attrs_values
       THEN {[err |-> ValueNotFoundErr, delta |-> 0]}
       ELSE LET attr_value == claim_values.attrs_values[k]
            IN IF k \in claim_values.wide
               THEN {[err |-> InvalidFormatErr, delta |-> 0]}
               ELSE {IF d.err # OkS THEN [err |-> d.err, delta |-> 0]
                     ELSE IF d.v < 0 THEN [err |-> PredicateErr, delta |-> d.v]
                     ELSE [err |-> OkS, delta |-> d.v]
                     : d \in i32_sub(attr_value, predicate.value)}

\* the integer square root
Isqrt(n) == CHOOSE r \in 0..n : r * r <= n /\ (r + 1) * (r + 1) > n

\* helpers::four_squares: u["0"] >= u["1"] >= u["2"] >= u["3"] with the largest
\* roots first
four_squares(delta) ==
    LET R == 0..Isqrt(delta)
        ok(a, b, c, d) == a * a + b * b + c * c + d * d = delta
        a0 == CHOOSE a \in R :
                /\ \E b \in 0..a, c \in 0..a, d \in 0..a : b >= c /\ c >= d /\ ok(a, b, c, d)
                /\ \A a2 \in R : a2 > a =>
                      ~\E b \in 0..a2, c \in 0..a2, d \in 0..a2 : b >= c /\ c >= d /\ ok(a2, b, c, d)
        b0 == CHOOSE b \in 0..a0 :
                /\ \E c \in 0..b, d \in 0..b : c >= d /\ ok(a0, b, c, d)
                /\ \A b2 \in 0..a0 : b2 > b => ~\E c \in 0..b2, d \in 0..b2 : c >= d /\ ok(a0, b2, c, d)
        c0 == CHOOSE c \in 0..b0 :
                /\ \E d \in 0..c : ok(a0, b0, c, d)
                /\ \A c2 \in 0..b0 : c2 > c => ~\E d \in 0..c2 : ok(a0, b0, c2, d)
        d0 == CHOOSE d \in 0..c0 : ok(a0, b0, c0, d)
    IN [k \in IterKeys |-> IF k = K(0) THEN a0 ELSE IF k = K(1) THEN b0
                            ELSE IF k = K(2) THEN c0 ELSE d0]

\* helpers::calc_tge
calc_tge(pk, u_tilde, r_tilde, mj, alpha_tilde, t) ==
    LET tau(i) == (mod_exp(pk.z, u_tilde[K(i)], pk.n) * mod_exp(pk.s, r_tilde[K(i)], pk.n)) % pk.n
        prod[i \in 0..ITERATION] ==
            IF i = 0 THEN 1 % pk.n
            ELSE (prod[i - 1] * mod_exp(t[K(i - 1)], u_tilde[K(i - 1)], pk.n)) % pk.n
    IN [i \in 1..ITERATION |-> tau(i - 1)]
       \o << (mod_exp(pk.z, mj, pk.n) * mod_exp(pk.s, r_tilde[DELTA], pk.n)) % pk.n,
             (mod_exp(pk.s, alpha_tilde, pk.n) * prod[ITERATION]) % pk.n >>

\* the map with f[i] under the key "i", for i in 0..3, and x under "DELTA"
WithDelta(f, x) ==
    [k \in IterKeys \cup {DELTA} |->
        IF k = DELTA THEN x ELSE f[CHOOSE i \in 0..(ITERATION - 1) : K(i) = k]]

\* lines 361-427 of _init_ge_proof, for a delta that passed the sign test; "base"
\* is the first draw number of this predicate
ge_init_body(pk, mj, delta, predicate, seed, base) ==
    LET u == four_squares(delta)
        r04 == [i \in 0..(ITERATION - 1) |-> bn_rand(seed, base + i, LARGE_VPRIME)]
        cur_t(i) == (mod_exp(pk.z, u[K(i)], pk.n) * mod_exp(pk.s, r04[i], pk.n)) % pk.n
        r_delta == bn_rand(seed, base + 4, LARGE_VPRIME)
        t_delta == (mod_exp(pk.z, delta, pk.n) * mod_exp(pk.s, r_delta, pk.n)) % pk.n
        r == WithDelta(r04, r_delta)
        t == WithDelta([i \in 0..(ITERATION - 1) |-> cur_t(i)], t_delta)
        c_list == [i \in 1..ITERATION |-> cur_t(i - 1)] \o <<t_delta>>
        u_tilde == [k \in IterKeys |->
                      bn_rand(seed, base + 5 + 2 * (CHOOSE i \in 0..(ITERATION - 1) : K(i) = k),
                              LARGE_UTILDE)]
        r_tilde == WithDelta([i \in 0..(ITERATION - 1) |-> bn_rand(seed, base + 6 + 2 * i, LARGE_RTILDE)],
                             bn_rand(seed, base + 13, LARGE_RTILDE))
        alpha_tilde == bn_rand(seed, base + 14, LARGE_ALPHATILDE)
        tau_list == calc_tge(pk, u_tilde, r_tilde, mj, alpha_tilde, t)
    IN [c_list |-> c_list, tau_list |-> tau_list, u |-> u, u_tilde |-> u_tilde,
        r |-> r, r_tilde |-> r_tilde, alpha_tilde |-> alpha_tilde,
        predicate |-> predicate, t |-> t]

\* the result of ProofBuilder::_init_ge_proof without the proof itself
init_ge_proof_err(mtilde, claim_values, predicate) ==
    {IF d.err # OkS THEN d
     ELSE IF predicate.attr_name \notin DOMAIN mtilde THEN [err |-> MtildeErr, delta |-> d.delta]
     ELSE d
     : d \in ge_delta(claim_values, predicate)}

\* ProofBuilder::_init_ge_proof: the possible outcomes
init_ge_proof(pk, mtilde, claim_values, predicate, seed, base) ==
    {IF d.err # OkS THEN [err |-> d.err, val |-> None]
     ELSE [err |-> OkS,
           val |-> Some(ge_init_body(pk, mtilde[predicate.attr_name], d.delta, predicate, seed, base))]
     : d \in init_ge_proof_err(mtilde, claim_values, predicate)}

\* the loop of _init_primary_proof over the predicates from index p on
RECURSIVE init_ge_proofs(_, _, _, _, _, _)
init_ge_proofs(pk, mtilde, claim_values, predicates, p, seed) ==
    IF p > Len(predicates) THEN {[err |-> OkS, ge_proofs |-> <<>>]}
    ELSE UNION {
           IF g.err # OkS THEN {[err |-> g.err, ge_proofs |-> <<>>]}
           ELSE {IF rest.err # OkS THEN rest
                 ELSE [err |-> OkS, ge_proofs |-> <<Unwrap(g.val)>> \o rest.ge_proofs]
                 : rest \in init_ge_proofs(pk, mtilde, claim_values, predicates, p + 1, seed)}
           : g \in init_ge_proof(pk, mtilde, claim_values, predicates[p], seed, 20 * p) }

init_primary_proof_own_m1(pk, c1, claim_values, claim_schema, sub_proof_request, m1_t, m2_t, seed) ==
    LET eq_proof == init_eq_proof(pk, c1, claim_schema, sub_proof_request,
                                  bn_rand(seed, 0, LARGE_MVECT), m2_t, seed)
    IN {IF g.err # OkS THEN [err |-> g.err, val |-> None]
        ELSE [err |-> OkS, val |-> Some([eq_proof |-> eq_proof, ge_proofs |-> g.ge_proofs])]
        : g \in init_ge_proofs(pk, eq_proof.m_tilde, claim_values,
                               sub_proof_request.predicates, 1, seed)}

\* ProofBuilder::_init_primary_proof: the possible outcomes
init_primary_proof(pk, c1, claim_values, claim_schema, sub_proof_request, m1_t, m2_t, seed) ==
    LET eq_proof == init_eq_proof(pk, c1, claim_schema, sub_proof_request, m1_t, m2_t, seed)
    IN {IF g.err # OkS THEN [err |-> g.err, val |-> None]
        ELSE [err |-> OkS, val |-> Some([eq_proof |-> eq_proof, ge_proofs |-> g.ge_proofs])]
        : g \in init_ge_proofs(pk, eq_proof.m_tilde, claim_values,
                               sub_proof_request.predicates, 1, seed)}

\* PrimaryInitProof::as_c_list and as_tau_list
GeCBytes(g) == [i \in 1..Len(g.c_list) |-> BnBytes(g.c_list[i])]
GeTauBytes(g) == [i \in 1..Len(g.tau_list) |-> BnBytes(g.tau_list[i])]
RECURSIVE GeCList(_)
GeCList(ge_proofs) ==
    IF ge_proofs = <<>> THEN <<>> ELSE GeCBytes(Head(ge_proofs)) \o GeCList(Tail(ge_proofs))
RECURSIVE GeTauList(_)
GeTauList(ge_proofs) ==
    IF ge_proofs = <<>> THEN <<>> ELSE GeTauBytes(Head(ge_proofs)) \o GeTauList(Tail(ge_proofs))
primary_as_c_list(p) == <<BnBytes(p.eq_proof.a_prime)>> \o GeCList(p.ge_proofs)
primary_as_tau_list(p) == <<BnBytes(p.eq_proof.t)>> \o GeTauList(p.ge_proofs)

-----------------------------------------------------------------------------
(* Non-revocation proof init *)

\* ProofBuilder::_gen_c_list_params
gen_c_list_params_m_by_r(r_claim, seed) ==
    LET rho == new_scalar(seed, 31)
        r == new_scalar(seed, 32)
        r_prime == new_scalar(seed, 33)
        r_prime_prime == new_scalar(seed, 34)
        r_prime_prime_prime == new_scalar(seed, 35)
        o == new_scalar(seed, 36)
        o_prime == new_scalar(seed, 37)
    IN [rho |-> rho, r |-> r, r_prime |-> r_prime, r_prime_prime |-> r_prime_prime,
        r_prime_prime_prime |-> r_prime_prime_prime, o |-> o, o_prime |-> o_prime,
        m |-> mul_mod(rho, r), m_prime |-> mul_mod(r, r_prime_prime),
        t |-> mul_mod(o, r_claim.c), t_prime |-> mul_mod(o_prime, r_prime_prime),
        m2 |-> bignum_to_group_element(group_element_to_bignum(r_claim.m2)),
        s |-> r_claim.vr_prime_prime, c |-> r_claim.c]

gen_c_list_params(r_claim, seed) ==
    LET rho == new_scalar(seed, 31)
        r == new_scalar(seed, 32)
        r_prime == new_scalar(seed, 33)
        r_prime_prime == new_scalar(seed, 34)
        r_prime_prime_prime == new_scalar(seed, 35)
        o == new_scalar(seed, 36)
        o_prime == new_scalar(seed, 37)
    IN [rho |-> rho, r |-> r, r_prime |-> r_prime, r_prime_prime |-> r_prime_prime,
        r_prime_prime_prime |-> r_prime_prime_prime, o |-> o, o_prime |-> o_prime,
        m |-> mul_mod(rho, r_claim.c), m_prime |-> mul_mod(r, r_prime_prime),
        t |-> mul_mod(o, r_claim.c), t_prime |-> mul_mod(o_prime, r_prime_prime),
        m2 |-> bignum_to_group_element(group_element_to_bignum(r_claim.m2)),
        s |-> r_claim.vr_prime_prime, c |-> r_claim.c]

\* ProofBuilder::_create_c_list_values
create_c_list_values(r_claim, params, pkr) ==
    [e |-> PointAdd(PointMul(pkr.h, params.rho), PointMul(pkr.htilde, params.o)),
     d |-> PointAdd(PointMul(pkr.g, params.r), PointMul(pkr.htilde, params.o_prime)),
     a |-> PointAdd(r_claim.sigma, PointMul(pkr.htilde, params.rho)),
     g |-> PointAdd(r_claim.g_i, PointMul(pkr.htilde, params.r)),
     w |-> PointAdd(r_claim.witness.omega, PointMul(pkr.h_cap, params.r_prime)),
     s |-> PointAdd(r_claim.witness.sigma_i, PointMul(pkr.h_cap, params.r_prime_prime)),
     u |-> PointAdd(r_claim.witness.u_i, PointMul(pkr.h_cap, params.r_prime_prime_prime))]

\* ProofBuilder::_gen_tau_list_params
gen_tau_list_params(seed) ==
    [rho |-> new_scalar(seed, 41), r |-> new_scalar(seed, 42), r_prime |-> new_scalar(seed, 43),
     r_prime_prime |-> new_scalar(seed, 44), r_prime_prime_prime |-> new_scalar(seed, 45),
     o |-> new_scalar(seed, 46), o_prime |-> new_scalar(seed, 47), m |-> new_scalar(seed, 48),
     m_prime |-> new_scalar(seed, 49), t |-> new_scalar(seed, 50), t_prime |-> new_scalar(seed, 51),
     m2 |-> new_scalar(seed, 52), s |-> new_scalar(seed, 53), c |-> new_scalar(seed, 54)]

\* ProofBuilder::create_tau_list_values
create_tau_list_values(pk_r, accumulator, params, proof_c) ==
    LET t1 == PointAdd(PointMul(pk_r.h, params.rho), PointMul(pk_r.htilde, params.o))
        t2 == PointAdd(PointAdd(PointMul(proof_c.e, params.c),
                                PointMul(pk_r.h, mod_neg(params.m))),
                       PointMul(pk_r.htilde, mod_neg(params.t)))
        t3 == PairMul(PairMul(PairPow(Pair(proof_c.a, pk_r.h_cap), params.c),
                              PairPow(Pair(pk_r.htilde, pk_r.h_cap), params.r)),
                      PairInverse(
                        PairMul(PairMul(PairMul(PairPow(Pair(pk_r.htilde, pk_r.y), params.rho),
                                                PairPow(Pair(pk_r.htilde, pk_r.h_cap), params.m)),
                                        PairPow(Pair(pk_r.h1, pk_r.h_cap), params.m2)),
                                PairPow(Pair(pk_r.h2, pk_r.h_cap), params.s))))
        t4 == PairMul(PairPow(Pair(pk_r.htilde, accumulator.acc), params.r),
                      PairPow(Pair(PointNeg(pk_r.g), pk_r.h_cap), params.r_prime))
        t5 == PointAdd(PointMul(pk_r.g, params.r), PointMul(pk_r.htilde, params.o_prime))
        t6 == PointAdd(PointAdd(PointMul(proof_c.d, params.r_prime_prime),
                                PointMul(pk_r.g, mod_neg(params.m_prime))),
                       PointMul(pk_r.htilde, mod_neg(params.t_prime)))
        t7 == PairMul(PairMul(PairPow(Pair(PointAdd(pk_r.pk, proof_c.g), pk_r.h_cap),
                                      params.r_prime_prime),
                              PairPow(Pair(pk_r.htilde, pk_r.h_cap), mod_neg(params.m_prime))),
                      PairPow(Pair(pk_r.htilde, proof_c.s), params.r))
        t8 == PairMul(PairPow(Pair(pk_r.htilde, pk_r.u), params.r),
                      PairPow(Pair(PointNeg(pk_r.g), pk_r.h_cap), params.r_prime_prime_prime))
    IN [t1 |-> t1, t2 |-> IF t2 = PointInf THEN PointInf ELSE t2, t3 |-> t3, t4 |-> t4,
        t5 |-> t5, t6 |-> IF t6 = PointInf THEN PointInf ELSE t6, t7 |-> t7, t8 |-> t8]

\* ProofBuilder::create_tau_list_expected_values
create_tau_list_expected_values(pk_r, accumulator, accum_pk, proof_c) ==
    [t1 |-> proof_c.e,
     t2 |-> PointInf,
     t3 |-> PairMul(Pair(PointAdd(pk_r.h0, proof_c.g), pk_r.h_cap),
                    PairInverse(Pair(proof_c.a, pk_r.y))),
     t4 |-> PairMul(Pair(proof_c.g, accumulator.acc),
                    PairInverse(PairMul(Pair(pk_r.g, proof_c.w), accum_pk.z))),
     t5 |-> proof_c.d,
     t6 |-> PointInf,
     t7 |-> PairMul(Pair(PointAdd(pk_r.pk, proof_c.g), proof_c.s),
                    PairInverse(Pair(pk_r.g, pk_r.g_dash))),
     t8 |-> PairMul(Pair(proof_c.g, pk_r.u), PairInverse(Pair(pk_r.g, proof_c.u)))]

\* ProofBuilder::_init_non_revocation_proof on the caller's copy of the claim:
\* the possible outcomes; "r_claim" is the copy after the witness update
init_non_revocation_proof(r_claim, rev_reg, pkr, seed) ==
    {IF upd.err # OkS THEN [err |-> upd.err, val |-> None, r_claim |-> upd.r_claim]
     ELSE LET c_list_params == gen_c_list_params(upd.r_claim, seed)
              proof_c_list == create_c_list_values(upd.r_claim, c_list_params, pkr)
              tau_list_params == gen_tau_list_params(seed)
              proof_tau_list == create_tau_list_values(pkr, rev_reg.acc, tau_list_params, proof_c_list)
          IN [err |-> OkS,
              val |-> Some([c_list_params |-> c_list_params, tau_list_params |-> tau_list_params,
                            c_list |-> proof_c_list, tau_list |-> proof_tau_list]),
              r_claim |-> upd.r_claim]
     : upd \in update_non_revocation_claim(r_claim, rev_reg.acc, rev_reg.tails.tails_dash)}

\* NonRevocInitProof::as_c_list and as_tau_list
non_revoc_as_c_list(p) ==
    <<G1Bytes(p.c_list.e), G1Bytes(p.c_list.d), G1Bytes(p.c_list.a), G1Bytes(p.c_list.g),
      G2Bytes(p.c_list.w), G2Bytes(p.c_list.s), G2Bytes(p.c_list.u)>>
non_revoc_as_tau_list(p) ==
    <<G1Bytes(p.tau_list.t1), G1Bytes(p.tau_list.t2), GtBytes(p.tau_list.t3), GtBytes(p.tau_list.t4),
      G1Bytes(p.tau_list.t5), G1Bytes(p.tau_list.t6), GtBytes(p.tau_list.t7), GtBytes(p.tau_list.t8)>>

-----------------------------------------------------------------------------
(* ProofBuilder::add_sub_proof_request *)

\* the condition of the if-let of add_sub_proof_request (lines 161-163)
RevocationApplies(c, reg_opt, pk) ==
    IsSome(c.r_claim) /\ IsSome(reg_opt) /\ IsSome(pk.r_key)

\* self.init_proofs.insert(key_id, init_proof)
MapInsert(m, k, x) == [y \in DOMAIN m \cup {k} |-> IF y = k THEN x ELSE m[y]]

\* Vec::extend_from_slice
extend_from_slice_front(list, slice) == slice \o list

extend_from_slice(list, slice) == list \o slice

\* the InitProof that add_sub_proof_request builds (lines 183-189)
InitProofWithoutRevocation(primary_init_proof, non_revoc_init_proof, claim_values, sub_proof_request, claim_schema) ==
    [primary_init_proof |-> primary_init_proof, non_revoc_init_proof |-> None,
     claim_values |-> claim_values, sub_proof_request |-> sub_proof_request,
     claim_schema |-> claim_schema]

InitProof(primary_init_proof, non_revoc_init_proof, claim_values, sub_proof_request, claim_schema) ==
    [primary_init_proof |-> primary_init_proof, non_revoc_init_proof |-> non_revoc_init_proof,
     claim_values |-> claim_values, sub_proof_request |-> sub_proof_request,
     claim_schema |-> claim_schema]

\* the early return of add_sub_proof_request when _init_primary_proof fails
\* (the ? of line 178): the builder b stays as the first half left it
primary_init_failed_rolled_back(b, err, nr_c, nr_tau) ==
    [builder |-> [b EXCEPT !.c_list = SubSeq(@, 1, Len(@) - Len(nr_c)),
                           !.tau_list = SubSeq(@, 1, Len(@) - Len(nr_tau))],
     err |-> err, nr_c |-> <<>>, nr_tau |-> <<>>, p_c |-> <<>>, p_tau |-> <<>>]

primary_init_failed(b, err, nr_c, nr_tau) ==
    [builder |-> b, err |-> err, nr_c |-> nr_c, nr_tau |-> nr_tau, p_c |-> <<>>, p_tau |-> <<>>]

\* the second half of add_sub_proof_request (lines 172-192) on the builder b
\* that the first half left
add_primary(b, key_id, c, claim_values, pk, sub_proof_request, claim_schema, m2_tilde, non_revoc_init_proof, nr_c, nr_tau, seed) ==
    {IF pr.err # OkS
     THEN primary_init_failed(b, pr.err, nr_c, nr_tau)
     ELSE LET primary_init_proof == Unwrap(pr.val)
              init_proof == InitProof(primary_init_proof, non_revoc_init_proof, claim_values,
                                      sub_proof_request, claim_schema)
          IN [builder |-> [b EXCEPT
                             !.c_list = extend_from_slice(@, primary_as_c_list(primary_init_proof)),
                             !.tau_list = extend_from_slice(@, primary_as_tau_list(primary_init_proof)),
                             !.init_proofs = MapInsert(@, key_id, init_proof)],
              err |-> OkS, nr_c |-> nr_c, nr_tau |-> nr_tau,
              p_c |-> primary_as_c_list(primary_init_proof),
              p_tau |-> primary_as_tau_list(primary_init_proof)]
     : pr \in init_primary_proof(pk.p_key, c.p_claim, claim_values, claim_schema,
                                 sub_proof_request, b.m1_tilde, m2_tilde, seed)}

\* ProofBuilder::add_sub_proof_request: the possible outcomes: the builder after
\* the call, the result, and the entries the two halves appended
add_sub_proof_request(b, key_id, c, claim_values, pk, reg_opt, sub_proof_request, claim_schema, seed) ==
    IF RevocationApplies(c, reg_opt, pk)
    THEN UNION {
           IF nr.err # OkS
           THEN {[builder |-> b, err |-> nr.err, nr_c |-> <<>>, nr_tau |-> <<>>,
                  p_c |-> <<>>, p_tau |-> <<>>]}
           ELSE LET proof == Unwrap(nr.val)
                IN add_primary([b EXCEPT !.c_list = extend_from_slice(@, non_revoc_as_c_list(proof)),
                                         !.tau_list = extend_from_slice(@, non_revoc_as_tau_list(proof))],
                               key_id, c, claim_values, pk, sub_proof_request, claim_schema,
                               Some(group_element_to_bignum(proof.tau_list_params.m2)),
                               Some(proof), non_revoc_as_c_list(proof),
                               non_revoc_as_tau_list(proof), seed)
           : nr \in init_non_revocation_proof(Unwrap(c.r_claim), Unwrap(reg_opt),
                                              Unwrap(pk.r_key), seed) }
    ELSE add_primary(b, key_id, c, claim_values, pk, sub_proof_request, claim_schema,
                     None, None, <<>>, <<>>, seed)

claim_after_add_sub_proof_request_updated(c, pk, reg_opt, seed) ==
    IF RevocationApplies(c, reg_opt, pk)
    THEN {[c EXCEPT !.r_claim = Some(nr.r_claim)]
          : nr \in init_non_revocation_proof(Unwrap(c.r_claim), Unwrap(reg_opt),
                                             Unwrap(pk.r_key), seed)}
    ELSE {c}

\* the caller's ClaimSignature after add_sub_proof_request: the method borrows
\* it as &ClaimSignature and _init_non_revocation_proof works on
\* r_claim.clone() (line 164), a temporary that is dropped with the call
claim_after_add_sub_proof_request(c, pk, reg_opt, seed) == {c}

-----------------------------------------------------------------------------
(* ProofBuilder::finalize *)

\* the code of one entry, as the hash reads it
EntryCode(e) ==
    4 * e.v + (IF e.t = "bn" THEN 0 ELSE IF e.t = "g1" THEN 1 ELSE IF e.t = "g2" THEN 2 ELSE 3)

\* helpers::get_hash_as_int: a hash of the sequence of byte strings
RECURSIVE hash_from(_, _)
hash_from(h, values) ==
    IF values = <<>> THEN h
    ELSE hash_from((h * 3 + EntryCode(Head(values)) + 1) % HashRange, Tail(values))
get_hash_as_int(values) == hash_from(1, values)

\* the vector that finalize hashes (lines 196-199)
HashInputCFirst(tau_list, c_list, nonce) == c_list \o tau_list \o <<BnBytes(nonce)>>

HashInput(tau_list, c_list, nonce) == tau_list \o c_list \o <<BnBytes(nonce)>>

finalize_non_revocation_proof_plus(init_proof, c_h) ==
    LET ch_num_z == bignum_to_group_element(c_h)
        x(f) == add_mod(init_proof.tau_list_params[f],
                        mul_mod(ch_num_z, init_proof.c_list_params[f]))
    IN [x_list |-> [f \in DOMAIN init_proof.tau_list_params |-> x(f)],
        c_list |-> init_proof.c_list]

\* ProofBuilder::_finalize_non_revocation_proof
finalize_non_revocation_proof(init_proof, c_h) ==
    LET ch_num_z == bignum_to_group_element(c_h)
        x(f) == add_mod(init_proof.tau_list_params[f],
                        mod_neg(mul_mod(ch_num_z, init_proof.c_list_params[f])))
    IN [x_list |-> [f \in DOMAIN init_proof.tau_list_params |-> x(f)],
        c_list |-> init_proof.c_list]

finalize_eq_proof_m2_swapped(ms, init_proof, c_h, claim_schema, claim_values, sub_proof_request) ==
    LET e == c_h * init_proof.e_prime + init_proof.e_tilde
        v == c_h * init_proof.v_prime + init_proof.v_tilde
        unrevealed_attrs == UnrevealedAttrs(claim_schema, sub_proof_request)
        m1 == c_h * ms + init_proof.m1_tilde
        m2 == c_h * init_proof.m2_tilde + init_proof.m2
    IN IF \E k \in unrevealed_attrs : k \notin DOMAIN init_proof.m_tilde
       THEN [err |-> InitMtildeErr, val |-> None]
       ELSE IF \E k \in unrevealed_attrs : k \notin DOMAIN claim_values.attrs_values
       THEN [err |-> AttrValueErr, val |-> None]
       ELSE IF \E a \in sub_proof_request.revealed_attrs : a \notin DOMAIN claim_values.attrs_values
       THEN [err |-> EncodedErr, val |-> None]
       ELSE [err |-> OkS,
             val |-> Some([revealed_attrs |-> [a \in sub_proof_request.revealed_attrs |->
                                                 claim_values.attrs_values[a]],
                           a_prime |-> init_proof.a_prime, e |-> e, v |-> v,
                           m |-> [k \in unrevealed_attrs |->
                                    c_h * claim_values.attrs_values[k] + init_proof.m_tilde[k]],
                           m1 |-> m1, m2 |-> m2])]

\* ProofBuilder::_finalize_eq_proof
finalize_eq_proof(ms, init_proof, c_h, claim_schema, claim_values, sub_proof_request) ==
    LET e == c_h * init_proof.e_prime + init_proof.e_tilde
        v == c_h * init_proof.v_prime + init_proof.v_tilde
        unrevealed_attrs == UnrevealedAttrs(claim_schema, sub_proof_request)
        m1 == c_h * ms + init_proof.m1_tilde
        m2 == c_h * init_proof.m2 + init_proof.m2_tilde
    IN IF \E k \in unrevealed_attrs : k \notin DOMAIN init_proof.m_tilde
       THEN [err |-> InitMtildeErr, val |-> None]
       ELSE IF \E k \in unrevealed_attrs : k \notin DOMAIN claim_values.attrs_values
       THEN [err |-> AttrValueErr, val |-> None]
       ELSE IF \E a \in sub_proof_request.revealed_attrs : a \notin DOMAIN claim_values.attrs_values
       THEN [err |-> EncodedErr, val |-> None]
       ELSE [err |-> OkS,
             val |-> Some([revealed_attrs |-> [a \in sub_proof_request.revealed_attrs |->
                                                 claim_values.attrs_values[a]],
                           a_prime |-> init_proof.a_prime, e |-> e, v |-> v,
                           m |-> [k \in unrevealed_attrs |->
                                    c_h * claim_values.attrs_values[k] + init_proof.m_tilde[k]],
                           m1 |-> m1, m2 |-> m2])]

finalize_ge_proof_alpha_unbracketed(c_h, init_proof, eq_proof) ==
    LET urproduct[i \in 0..ITERATION] ==
            IF i = 0 THEN 0
            ELSE init_proof.u[K(i - 1)] * init_proof.r[K(i - 1)] + urproduct[i - 1]
        u == [k \in IterKeys |-> c_h * init_proof.u[k] + init_proof.u_tilde[k]]
        r == [k \in IterKeys \cup {DELTA} |-> c_h * init_proof.r[k] + init_proof.r_tilde[k]]
        alpha == init_proof.r[DELTA] - urproduct[ITERATION] * c_h + init_proof.alpha_tilde
    IN IF init_proof.predicate.attr_name \notin DOMAIN eq_proof.m
       THEN [err |-> EqMErr, val |-> None]
       ELSE [err |-> OkS,
             val |-> Some([u |-> u, r |-> r, mj |-> eq_proof.m[init_proof.predicate.attr_name],
                           alpha |-> alpha, t |-> init_proof.t,
                           predicate |-> init_proof.predicate])]

\* ProofBuilder::_finalize_ge_proof
finalize_ge_proof(c_h, init_proof, eq_proof) ==
    LET urproduct[i \in 0..ITERATION] ==
            IF i = 0 THEN 0
            ELSE init_proof.u[K(i - 1)] * init_proof.r[K(i - 1)] + urproduct[i - 1]
        u == [k \in IterKeys |-> c_h * init_proof.u[k] + init_proof.u_tilde[k]]
        r == [k \in IterKeys \cup {DELTA} |-> c_h * init_proof.r[k] + init_proof.r_tilde[k]]
        alpha == (init_proof.r[DELTA] - urproduct[ITERATION]) * c_h + init_proof.alpha_tilde
    IN IF init_proof.predicate.attr_name \notin DOMAIN eq_proof.m
       THEN [err |-> EqMErr, val |-> None]
       ELSE [err |-> OkS,
             val |-> Some([u |-> u, r |-> r, mj |-> eq_proof.m[init_proof.predicate.attr_name],
                           alpha |-> alpha, t |-> init_proof.t,
                           predicate |-> init_proof.predicate])]

\* ProofBuilder::_finalize_primary_proof
finalize_primary_proof(ms, init_proof, c_h, claim_schema, claim_values, sub_proof_request) ==
    LET eq == finalize_eq_proof(ms, init_proof.eq_proof, c_h, claim_schema, claim_values, sub_proof_request)
    IN IF eq.err # OkS THEN [err |-> eq.err, val |-> None]
       ELSE LET eq_proof == Unwrap(eq.val)
                g(i) == finalize_ge_proof(c_h, init_proof.ge_proofs[i], eq_proof)
                n == Len(init_proof.ge_proofs)
            IN IF \E i \in 1..n : g(i).err # OkS
               THEN [err |-> g(CHOOSE i \in 1..n : g(i).err # OkS /\ \A j \in 1..(i - 1) : g(j).err = OkS).err,
                     val |-> None]
               ELSE [err |-> OkS,
                     val |-> Some([eq_proof |-> eq_proof,
                                   ge_proofs |-> [i \in 1..n |-> Unwrap(g(i).val)]])]

\* the body of the loop of finalize for one entry of init_proofs (lines 206-219)
finalize_sub_proof(ms, init_proof, c_h) ==
    LET non_revoc_proof ==
            IF IsSome(init_proof.non_revoc_init_proof)
            THEN Some(finalize_non_revocation_proof(Unwrap(init_proof.non_revoc_init_proof), c_h))
            ELSE None
        primary == finalize_primary_proof(ms, init_proof.primary_init_proof, c_h,
                                          init_proof.claim_schema, init_proof.claim_values,
                                          init_proof.sub_proof_request)
    IN IF primary.err # OkS THEN [err |-> primary.err, val |-> None]
       ELSE [err |-> OkS,
             val |-> Some([primary_proof |-> Unwrap(primary.val),
                           non_revoc_proof |-> non_revoc_proof])]

\* ProofBuilder::finalize: the possible outcomes.  The loop visits init_proofs
\* in the HashMap's order and returns the first error it meets.
finalize(b, nonce, ms) ==
    LET c_h == get_hash_as_int(HashInput(b.tau_list, b.c_list, nonce))
        sub(k) == finalize_sub_proof(ms, b.init_proofs[k], c_h)
        failing == {k \in DOMAIN b.init_proofs : sub(k).err # OkS}
    IN IF failing # {}
       THEN {[err |-> sub(k).err, val |-> None] : k \in failing}
       ELSE {[err |-> OkS,
              val |-> Some([proofs |-> [k \in DOMAIN b.init_proofs |-> Unwrap(sub(k).val)],
                            aggregated_proof |-> [c_hash |-> c_h, c_list |-> b.c_list]])]}

-----------------------------------------------------------------------------
(* The verifier's reconstruction of the tau-list *)

\* BigNumber::inverse modulo n (0 when there is none)
mod_inverse(x, n) ==
    IF \E y \in 0..(n - 1) : (x * y) % n = 1 % n
    THEN CHOOSE y \in 0..(n - 1) : (x * y) % n = 1 % n
    ELSE 0

\* b^e modulo n for an exponent of either sign
mod_pow(b, e, n) ==
    IF e >= 0 THEN mod_exp(b % n, e, n) ELSE mod_exp(mod_inverse(b % n, n), 0 - e, n)

\* the product of f(x) over the elements of the sequence xs, modulo n
RECURSIVE ProdMod(_, _, _, _)
ProdMod(xs, f, e, n) ==
    IF xs = <<>> THEN 1 % n
    ELSE (mod_pow(f[Head(xs)], e[Head(xs)], n) * ProdMod(Tail(xs), f, e, n)) % n

\* the CL signature equation a^e * s^v * rms^ms * rctxt^m_2 * prod r_k^m_k = z (mod n)
SignatureEquation(pk, c1, ms, claim_values, claim_schema) ==
    /\ claim_schema.attrs \subseteq DOMAIN claim_values.attrs_values
    /\ (mod_pow(c1.a, c1.e, pk.n) * mod_pow(pk.s, c1.v, pk.n) * mod_pow(pk.rms, ms, pk.n)
          * mod_pow(pk.rctxt, c1.m_2, pk.n)
          * ProdMod(CHOOSE o \in Orders(claim_schema.attrs) : TRUE, pk.r,
                    claim_values.attrs_values, pk.n)) % pk.n = pk.z % pk.n

\* the equality tau that the verifier rebuilds from the responses and c_h
verify_equality(pk, eq, c_h, claim_schema) ==
    LET unrevealed == CHOOSE o \in Orders(DOMAIN eq.m) : TRUE
        revealed == CHOOSE o \in Orders(DOMAIN eq.revealed_attrs) : TRUE
        rar == (mod_pow(eq.a_prime, Pow2(LARGE_E_START), pk.n)
                  * ProdMod(revealed, pk.r, eq.revealed_attrs, pk.n)) % pk.n
        t1 == (mod_pow(eq.a_prime, eq.e, pk.n) * ProdMod(unrevealed, pk.r, eq.m, pk.n)
                 * mod_pow(pk.s, eq.v, pk.n) * mod_pow(pk.rms, eq.m1, pk.n)
                 * mod_pow(pk.rctxt, eq.m2, pk.n)) % pk.n
        t2 == mod_pow((pk.z * mod_inverse(rar, pk.n)) % pk.n, 0 - c_h, pk.n)
    IN (t1 * t2) % pk.n

\* the six GE taus that the verifier rebuilds from the responses and c_h
verify_ge_predicate(pk, g, c_h) ==
    LET tu(i) == mod_pow(g.t[K(i)], g.u[K(i)], pk.n)
        tau(i) == (mod_pow(pk.z, g.u[K(i)], pk.n) * mod_pow(pk.s, g.r[K(i)], pk.n)
                     * mod_pow(g.t[K(i)], 0 - c_h, pk.n)) % pk.n
        t_delta == g.t[DELTA]
        tau_4 == (mod_pow(pk.z, g.mj, pk.n) * mod_pow(pk.s, g.r[DELTA], pk.n)
                    * mod_pow((t_delta * mod_pow(pk.z, g.predicate.value, pk.n)) % pk.n,
                              0 - c_h, pk.n)) % pk.n
        tau_5 == (mod_pow(pk.s, g.alpha, pk.n) * tu(0) * tu(1) * tu(2) * tu(3)
                    * mod_pow(t_delta, 0 - c_h, pk.n)) % pk.n
    IN <<tau(0), tau(1), tau(2), tau(3), tau_4, tau_5>>

\* the eight non-revocation taus that the verifier rebuilds: the expected
\* values raised to c_h, times the values of the responses
verify_non_revocation_proof(pkr, accumulator, accum_pk, np, c_h) ==
    LET ch == bignum_to_group_element(c_h)
        hat == create_tau_list_expected_values(pkr, accumulator, accum_pk, np.c_list)
        calc == create_tau_list_values(pkr, accumulator, np.x_list, np.c_list)
        point(t) == PointAdd(PointMul(hat[t], ch), calc[t])
        gt(t) == PairMul(PairPow(hat[t], ch), calc[t])
    IN [t1 |-> point("t1"), t2 |-> point("t2"), t3 |-> gt("t3"), t4 |-> gt("t4"),
        t5 |-> point("t5"), t6 |-> point("t6"), t7 |-> gt("t7"), t8 |-> gt("t8")]

\* the GE taus of the predicates from index j on, as tau-list entries
RECURSIVE verify_ge_predicates(_, _, _, _)
verify_ge_predicates(pk, ge_proofs, c_h, j) ==
    IF j > Len(ge_proofs) THEN <<>>
    ELSE [i \in 1..6 |-> BnBytes(verify_ge_predicate(pk, ge_proofs[j], c_h)[i])]
         \o verify_ge_predicates(pk, ge_proofs, c_h, j + 1)

\* the tau-list entries that the verifier rebuilds for one sub-proof
verify_sub_proof(pk, accumulator, accum_pk, sub_proof, c_h, claim_schema) ==
    (IF IsSome(sub_proof.non_revoc_proof)
     THEN non_revoc_as_tau_list(
            [tau_list |-> verify_non_revocation_proof(Unwrap(pk.r_key), accumulator, accum_pk,
                                                      Unwrap(sub_proof.non_revoc_proof), c_h)])
     ELSE <<>>)
    \o <<BnBytes(verify_equality(pk.p_key, sub_proof.primary_proof.eq_proof, c_h, claim_schema))>>
    \o verify_ge_predicates(pk.p_key, sub_proof.primary_proof.ge_proofs, c_h, 1)

-----------------------------------------------------------------------------
(* The caller's inputs *)

KeyIds == {"issuer1", "issuer2"}
Nonces == {1, 2}
MasterSecret == [ms |-> 5]
ClaimSchema == [attrs |-> Attrs]
ClaimValuesFull ==
    [attrs_values |-> [a \in Attrs |-> IF a = "name" THEN 12 ELSE 28], wide |-> {}]

GE(attr, v) == [attr_name |-> attr, p_type |-> "GE", value |-> v]
SubProofRequests ==
    { [revealed_attrs |-> {"name"}, predicates |-> <<GE("age", 18)>>],
      [revealed_attrs |-> {}, predicates |-> <<>>],
      [revealed_attrs |-> {"name"}, predicates |-> <<GE("age", 30)>>] }

\* claim values: all of the schema; without "age"; with an "age" that is no
\* i32; with an attribute that the schema does not have
ClaimValuesCases ==
    { ClaimValuesFull,
      [attrs_values |-> [a \in {"name"} |-> 12], wide |-> {}],
      [ClaimValuesFull EXCEPT !.wide = {"age"}],
      [attrs_values |-> [a \in Attrs \cup {"height"} |->
                           IF a = "name" THEN 12 ELSE IF a = "age" THEN 28 ELSE 180],
       wide |-> {}] }

\* requests whose predicates name unrevealed, revealed and foreign attributes
RequestCases ==
    { [revealed_attrs |-> R, predicates |-> P] :
        R \in {{}, {"age"}},
        P \in { <<>>, <<GE("age", 18)>>, <<GE("age", 30)>>, <<GE("height", 18)>>,
                <<GE("age", MinI32)>>, <<GE("name", 5), GE("age", 18)>> } }

\* attribute and predicate values for the stand-alone GE init
GeValues == {MinI32, MinI32 + 1, -30, -1, 0, 1, 18, 28, MaxI32 - 1, MaxI32}

-----------------------------------------------------------------------------
(* The operations as actions *)

\* add_sub_proof_request on the builder, for the claim held and claim_values
AddSubProofRequestOn(key_id, given, claim_values, req) ==
    /\ rng' = rng + 1
    /\ \E out \in add_sub_proof_request(builder, key_id, claim, claim_values, pub_key, RegistryArg(given), req, ClaimSchema, rng) :
          /\ builder' = out.builder
          /\ calls' = Append(calls,
                 [key_id |-> key_id, claim |-> claim, r_reg_given |-> given, accum |-> r_reg.acc,
                  claim_values |-> claim_values,
                  sub_proof_request |-> req, seed |-> rng, pre |-> builder, err |-> out.err,
                  nr_c |-> out.nr_c, nr_tau |-> out.nr_tau, p_c |-> out.p_c, p_tau |-> out.p_tau,
                  processed |-> pcs.n, verified |-> IF pcs.err = OkS THEN pcs.checked ELSE {},
                  finalized |-> fin.n])
    /\ claim' \in claim_after_add_sub_proof_request(claim, pub_key, RegistryArg(given), rng)
    /\ UNCHANGED <<pub_key, bmsd, r_reg, pcs, fin, ge, wit, bms, ctau>>

AddSubProofRequest(key_id, given, req) ==
    /\ Len(calls) < MaxCalls
    /\ AddSubProofRequestOn(key_id, given, ClaimValuesFull, req)

Finalize(nonce) ==
    /\ fin.n < MaxFinalize
    /\ \E out \in finalize(builder, nonce, MasterSecret.ms) :
          fin' = [n |-> fin.n + 1, nonce |-> nonce, builder |-> builder,
                  err |-> out.err, proof |-> out.val]
    /\ UNCHANGED <<pub_key, bmsd, claim, r_reg, pcs, builder, calls, ge, wit, rng, bms, ctau>>

\* a stand-alone call of _init_ge_proof for the predicate "age >= value" on a
\* claim whose age is attr
InitGeProof(attr, value) ==
    /\ \E out \in init_ge_proof_err([a \in {"age"} |-> 1], [attrs_values |-> [a \in {"age"} |-> attr], wide |-> {}], GE("age", value)) :
          ge' = [n |-> 1, attr |-> attr, value |-> value, err |-> out.err, delta |-> out.delta,
                 seed |-> 0, proof |-> None]
    /\ UNCHANGED <<pub_key, bmsd, claim, r_reg, pcs, builder, calls, fin, wit, rng, bms, ctau>>

\* a stand-alone call of _init_ge_proof as in tests::init_ge_proof_works, for
\* the predicate "age >= value" on a claim whose age is attr; the proof is kept
InitGeProofKept(attr, value, seed) ==
    /\ LET claim_values == [attrs_values |-> [a \in {"age"} |-> attr], wide |-> {}]
           predicate == GE("age", value)
       IN \E d \in ge_delta(claim_values, predicate) :
          \E out \in init_ge_proof(pub_key.p_key, get_mtilde({"age"}, seed), claim_values,
                                    predicate, seed, 20) :
             /\ out.err = d.err
             /\ ge' = [n |-> 1, attr |-> attr, value |-> value, err |-> out.err,
                       delta |-> d.delta, seed |-> seed, proof |-> out.val]
    /\ UNCHANGED <<pub_key, bmsd, claim, r_reg, pcs, builder, calls, fin, wit, rng, bms, ctau>>

\* blinded_master_secret for a master secret ms; the prover keeps the data
BlindedMasterSecret(ms, seed) ==
    /\ LET out == blinded_master_secret(pub_key, [ms |-> ms], seed)
       IN /\ bms' = [n |-> 1, ms |-> ms, seed |-> seed, secret |-> out.secret, data |-> out.data]
          /\ bmsd' = out.data
    /\ UNCHANGED <<pub_key, claim, r_reg, pcs, builder, calls, fin, ge, wit, rng, ctau>>

\* what process_claim_signature checks on a revocation claim, with success
PassesWitnessCheck(rc, pkr, reg) ==
    test_witness_credential(rc, pkr, reg, group_element_to_bignum(rc.m2)).err = OkS

\* the computation of tests::test_c_and_tau_list on a revocation claim that
\* process_claim_signature accepts
CAndTauList(rc, seed) ==
    /\ ctau.n = 0
    /\ PassesWitnessCheck(rc, Unwrap(pub_key.r_key), r_reg)
    /\ LET r_key == Unwrap(pub_key.r_key)
           c_list_params == gen_c_list_params(rc, seed)
           proof_c_list == create_c_list_values(rc, c_list_params, r_key)
       IN ctau' = [n |-> 1, r_claim |-> rc, c_list_params |-> c_list_params,
                   proof_c_list |-> proof_c_list,
                   proof_tau_list |-> create_tau_list_values(r_key, r_reg.acc, c_list_params, proof_c_list),
                   proof_tau_list_calc |-> create_tau_list_expected_values(r_key, r_reg.acc, r_reg.key, proof_c_list)]
    /\ UNCHANGED <<pub_key, bmsd, claim, r_reg, pcs, builder, calls, fin, ge, wit, rng, bms>>

-----------------------------------------------------------------------------
(* Initial states and specifications *)

\* Prover::new_proof_builder
new_proof_builder(seed) ==
    [m1_tilde |-> bn_rand(seed, 0, LARGE_M2_TILDE), init_proofs |-> <<>>,
     c_list |-> <<>>, tau_list |-> <<>>]

PubKeys == {[p_key |-> PrimaryKey, r_key |-> rk] : rk \in {None, Some(RevocationKey)}}

NoCall(c) ==
    [n |-> 0, r_reg_given |-> FALSE, pre |-> c, issued |-> c, err |-> "none", ran_nr |-> FALSE,
     checked |-> {}]
NoFinalize(b) == [n |-> 0, nonce |-> 0, builder |-> b, err |-> "none", proof |-> None]
NoGe ==
    [n |-> 0, attr |-> 0, value |-> 0, err |-> "none", delta |-> 0, seed |-> 0, proof |-> None]
NoUpdate(rc) ==
    [n |-> 0, changes |-> 0, r_claim |-> rc, pre |-> rc, accum |-> IssuedRegistry.acc, err |-> "none"]

NoBlind ==
    [n |-> 0, ms |-> 0, seed |-> 0, secret |-> [u |-> 0, ur |-> None],
     data |-> [v_prime |-> 0, vr_prime |-> None]]
NoTau ==
    LET z == [t1 |-> 0, t2 |-> 0, t3 |-> 0, t4 |-> 0, t5 |-> 0, t6 |-> 0, t7 |-> 0, t8 |-> 0]
    IN [n |-> 0, r_claim |-> IssuedRevocationClaim,
        c_list_params |-> gen_c_list_params(IssuedRevocationClaim, 0),
        proof_c_list |-> create_c_list_values(IssuedRevocationClaim,
                                              gen_c_list_params(IssuedRevocationClaim, 0),
                                              RevocationKey),
        proof_tau_list |-> z, proof_tau_list_calc |-> z]

InitBase ==
    /\ r_reg = IssuedRegistry
    /\ pcs = NoCall(claim)
    /\ calls = <<>>
    /\ fin = NoFinalize(builder)
    /\ ge = NoGe
    /\ wit = NoUpdate(IssuedRevocationClaim)
    /\ bms = NoBlind
    /\ ctau = NoTau

\* the prover holds a claim the issuer just sent and a fresh builder
Init ==
    /\ pub_key \in PubKeys
    /\ bmsd = [v_prime |-> 20, vr_prime |-> Some(2)]
    /\ claim \in {[p_claim |-> IssuedPrimaryClaim, r_claim |-> rc] :
                    rc \in {None, Some(IssuedRevocationClaim)}}
    /\ rng \in 1..MaxSeed
    /\ builder = new_proof_builder(rng)
    /\ InitBase

Next ==
    \/ \E given \in BOOLEAN : pcs.n < MaxProcessInProof /\ ProcessClaimSignature(given)
    \/ \E j \in 1..MaxClaimNum : wit.changes < MaxAccChangesInProof /\ AccumulatorChange(j)
    \/ \E key_id \in KeyIds, given \in BOOLEAN, req \in SubProofRequests :
          AddSubProofRequest(key_id, given, req)
    \/ \E nonce \in Nonces : Finalize(nonce)

Spec == Init /\ [][Next]_vars

\* add_sub_proof_request on every kind of claim values and request, on a
\* registry that the issuer may have changed
NextRequest ==
    \/ \E j \in 1..MaxClaimNum : wit.changes < MaxAccChangesInRequest /\ AccumulatorChange(j)
    \/ \E given \in BOOLEAN, claim_values \in ClaimValuesCases, req \in RequestCases :
          Len(calls) < MaxRequestCalls /\ AddSubProofRequestOn("issuer1", given, claim_values, req)

SpecRequest == Init /\ [][NextRequest]_vars

\* a proof from one add_sub_proof_request on every kind of claim values and
\* request, then finalize
NextProof ==
    \/ \E given \in BOOLEAN, claim_values \in ClaimValuesCases, req \in RequestCases :
          /\ Len(calls) < MaxProofCalls /\ fin.n = 0
          /\ AddSubProofRequestOn("issuer1", given, claim_values, req)
    \/ \E nonce \in Nonces : Finalize(nonce)

SpecProof == Init /\ [][NextProof]_vars

\* process_claim_signature on whatever the issuer and the caller supply
InitClaim ==
    /\ pub_key \in PubKeys
    /\ bmsd \in {[v_prime |-> vp, vr_prime |-> vr] : vp \in {3, 20}, vr \in {None, Some(2), Some(3)}}
    /\ claim \in {[p_claim |-> pc, r_claim |-> rc] :
                    pc \in {IssuedPrimaryClaim, [m_2 |-> 2, a |-> 13, e |-> 5, v |-> 4]},
                    rc \in {None} \cup {Some(x) : x \in {IssuedRevocationClaim} \cup ForgedRevocationClaims}}
    /\ rng = 1
    /\ builder = new_proof_builder(rng)
    /\ InitBase

NextClaim == \E given \in BOOLEAN : ProcessClaimSignature(given)

SpecClaim == InitClaim /\ [][NextClaim]_vars

\* _init_ge_proof over the i32 range
InitGe ==
    /\ pub_key = [p_key |-> PrimaryKey, r_key |-> None]
    /\ bmsd = [v_prime |-> 20, vr_prime |-> None]
    /\ claim = [p_claim |-> IssuedPrimaryClaim, r_claim |-> None]
    /\ rng = 1
    /\ builder = new_proof_builder(rng)
    /\ InitBase

NextGe == \E attr \in GeValues, value \in GeValues : InitGeProof(attr, value)

SpecGe == InitGe /\ [][NextGe]_vars

\* _init_ge_proof with its proof, for age = 28 against every threshold 0..30
\* and for the largest age against -1
GeInitCases == {<<28, v>> : v \in 0..30} \cup {<<MaxI32, -1>>}

NextGeKept ==
    \E c \in GeInitCases, seed \in 0..MaxGeSeed : InitGeProofKept(c[1], c[2], seed)

SpecGeKept == InitGe /\ [][NextGeKept]_vars

\* _update_non_revocation_claim against a changing accumulator
InitWitness ==
    /\ pub_key = [p_key |-> PrimaryKey, r_key |-> Some(RevocationKey)]
    /\ bmsd = [v_prime |-> 20, vr_prime |-> Some(2)]
    /\ claim = [p_claim |-> IssuedPrimaryClaim, r_claim |-> Some(IssuedRevocationClaim)]
    /\ rng = 1
    /\ builder = new_proof_builder(rng)
    /\ r_reg \in {[IssuedRegistry EXCEPT !.tails.tails_dash = t] :
                    t \in {FullTails, [k \in DOMAIN FullTails \ {MaxClaimNum} |-> FullTails[k]]}}
    /\ pcs = NoCall(claim)
    /\ calls = <<>>
    /\ fin = NoFinalize(builder)
    /\ ge = NoGe
    /\ wit \in {NoUpdate([IssuedRevocationClaim EXCEPT !.i = i]) : i \in 1..2}
    /\ bms = NoBlind
    /\ ctau = NoTau

NextWitness ==
    \/ \E j \in 1..MaxClaimNum : AccumulatorChange(j)
    \/ UpdateNonRevocationClaim

SpecWitness == InitWitness /\ [][NextWitness]_vars

\* the three pairing identities on a non-revocation claim
WitnessIdentity(rc, pkr, reg) ==
    PairMul(Pair(rc.witness.g_i, reg.acc.acc), PairInverse(Pair(pkr.g, rc.witness.omega))) = reg.key.z
SigmaIIdentity(rc, pkr) ==
    Pair(PointAdd(pkr.pk, rc.g_i), rc.witness.sigma_i) = Pair(pkr.g, pkr.g_dash)
SignatureIdentity(rc, pkr) ==
    Pair(rc.sigma, PointAdd(pkr.y, PointMul(pkr.h_cap, rc.c)))
      = Pair(PointAdd(PointAdd(PointAdd(pkr.h0, PointMul(pkr.h1, rc.m2)),
                               PointMul(pkr.h2, rc.vr_prime_prime)), rc.g_i),
             pkr.h_cap)

\* blinded_master_secret for every master secret and draw
InitBlind ==
    /\ pub_key \in PubKeys
    /\ bmsd = NoBlind.data
    /\ claim = [p_claim |-> IssuedPrimaryClaim, r_claim |-> None]
    /\ rng = 1
    /\ builder = new_proof_builder(rng)
    /\ InitBase

NextBlind ==
    \E ms \in 0..(Pow2(LARGE_MASTER_SECRET) - 1), seed \in 0..MaxBlindSeed :
        BlindedMasterSecret(ms, seed)

SpecBlind == InitBlind /\ [][NextBlind]_vars

\* a revocation claim like the issued one but for sigma, vr'', the witness and g_i
RevocationClaimWith(sg, vr, si, ui, wg, om, gi) ==
    [sigma |-> sg, c |-> IssuedRevocationClaim.c, vr_prime_prime |-> vr,
     witness |-> [sigma_i |-> si, u_i |-> ui, g_i |-> wg, omega |-> om,
                  v |-> IssuedRevocationClaim.witness.v],
     g_i |-> gi, i |-> IssuedRevocationClaim.i, m2 |-> IssuedRevocationClaim.m2]

\* the C-list and the tau-list of every claim that passes the prover's check
InitTau ==
    /\ pub_key = [p_key |-> PrimaryKey, r_key |-> Some(RevocationKey)]
    /\ bmsd = [v_prime |-> 20, vr_prime |-> Some(2)]
    /\ claim = [p_claim |-> IssuedPrimaryClaim, r_claim |-> Some(IssuedRevocationClaim)]
    /\ rng = 1
    /\ builder = new_proof_builder(rng)
    /\ InitBase

\* every claim of that form on which the three identities hold, found one
\* identity at a time
NextTau ==
    \E wg \in 0..(q - 1), om \in 0..(q - 1) :
        /\ WitnessIdentity(RevocationClaimWith(0, 0, 0, 0, wg, om, 0), RevocationKey, r_reg)
        /\ \E gi \in 0..(q - 1), si \in 0..(q - 1) :
              /\ SigmaIIdentity(RevocationClaimWith(0, 0, si, 0, wg, om, gi), RevocationKey)
              /\ \E sg \in 0..(q - 1), vr \in 0..(q - 1) :
                    /\ SignatureIdentity(RevocationClaimWith(sg, vr, si, 0, wg, om, gi), RevocationKey)
                    /\ \E ui \in 0..(q - 1), seed \in 0..MaxTauSeed :
                          CAndTauList(RevocationClaimWith(sg, vr, si, ui, wg, om, gi), seed)

SpecTau == InitTau /\ [][NextTau]_vars

-----------------------------------------------------------------------------
(* Properties *)

\* the builder as call number i of add_sub_proof_request left it
BuilderAfter(i) == IF i < Len(calls) THEN calls[i + 1].pre ELSE builder

\* whether the if-let of add_sub_proof_request matched at call c
CallHadRevocation(c) ==
    IsSome(c.claim.r_claim) /\ c.r_reg_given /\ IsSome(pub_key.r_key)

\* C1: process_claim_signature replaces p_claim.v by the integer sum v' + v,
\* without any modular reduction, and leaves m_2, a and e as they were.
C1_PrimaryUnblinding ==
    pcs.n > 0 =>
        /\ claim.p_claim.v = bmsd.v_prime + pcs.pre.p_claim.v
        /\ claim.p_claim.m_2 = pcs.pre.p_claim.m_2
        /\ claim.p_claim.a = pcs.pre.p_claim.a
        /\ claim.p_claim.e = pcs.pre.p_claim.e

\* a call has produced a v that is larger than the modulus n
C1_Witness == pcs.n > 0 /\ claim.p_claim.v > pub_key.p_key.n

\* C2: the revocation unblinding and the pairing checks run if and only if
\* r_claim, vr_prime, r_key and r_reg are all present, and then vr_prime_prime
\* becomes (vr' + vr'') mod q; otherwise the call returns Ok, only p_claim.v is
\* updated and r_claim stays as it was.
C2_RevocationUnblinding ==
    pcs.n > 0 =>
        LET all4 == /\ IsSome(pcs.pre.r_claim) /\ IsSome(bmsd.vr_prime)
                    /\ IsSome(pub_key.r_key) /\ pcs.r_reg_given
        IN /\ pcs.ran_nr <=> all4
           /\ (pcs.checked # {}) <=> all4
           /\ all4 =>
                /\ Unwrap(claim.r_claim).vr_prime_prime
                     = (Unwrap(bmsd.vr_prime) + Unwrap(pcs.pre.r_claim).vr_prime_prime) % q
                /\ [Unwrap(claim.r_claim) EXCEPT !.vr_prime_prime = 0]
                     = [Unwrap(pcs.pre.r_claim) EXCEPT !.vr_prime_prime = 0]
           /\ ~all4 =>
                /\ pcs.err = OkS
                /\ claim.r_claim = pcs.pre.r_claim
                /\ claim.p_claim = [pcs.pre.p_claim EXCEPT !.v = bmsd.v_prime + pcs.pre.p_claim.v]

\* the unblinding has run and the sum vr' + vr'' was reduced modulo q
C2_Witness ==
    /\ pcs.n > 0 /\ pcs.ran_nr
    /\ Unwrap(claim.r_claim).vr_prime_prime
         < Unwrap(bmsd.vr_prime) + Unwrap(pcs.pre.r_claim).vr_prime_prime

\* C3: with all revocation inputs present the call returns Ok if and only if
\* the three pairing identities hold on the unblinded claim, and otherwise it
\* returns InvalidStructure("Issuer is sending incorrect data").
C3_PairingChecks ==
    (pcs.n > 0 /\ pcs.ran_nr) =>
        LET rc == Unwrap(claim.r_claim)
            pkr == Unwrap(pub_key.r_key)
            all3 == /\ WitnessIdentity(rc, pkr, r_reg)
                    /\ SigmaIIdentity(rc, pkr)
                    /\ SignatureIdentity(rc, pkr)
        IN /\ pcs.err = OkS <=> all3
           /\ pcs.err # OkS => pcs.err = IssuerErr

\* the call has rejected a claim on which only the third identity fails
C3_Witness ==
    /\ pcs.n > 0 /\ pcs.ran_nr /\ pcs.err = IssuerErr
    /\ WitnessIdentity(Unwrap(claim.r_claim), Unwrap(pub_key.r_key), r_reg)
    /\ SigmaIIdentity(Unwrap(claim.r_claim), Unwrap(pub_key.r_key))
    /\ ~SignatureIdentity(Unwrap(claim.r_claim), Unwrap(pub_key.r_key))

\* the call has accepted a claim on which the three identities hold
C3_Accepted == pcs.n > 0 /\ pcs.ran_nr /\ pcs.err = OkS

\* C4: add_sub_proof_request builds a sub-proof only for a credential whose CL
\* signature equation and, when it carries a non-revocation part, whose three
\* revocation pairing identities the prover has checked with success.
C4_VerifiedBeforeProving ==
    \A i \in DOMAIN calls :
        calls[i].err = OkS =>
            /\ "cl_signature" \in calls[i].verified
            /\ IsSome(calls[i].claim.r_claim) => {"z", "gg", "h"} \subseteq calls[i].verified

\* C5: the GE-predicate init succeeds only when attr >= v, and fails with
\* "Predicate is not satisfied" whenever attr < v, over the whole i32 range.
C5_GePredicate ==
    ge.n > 0 =>
        /\ ge.err = OkS => ge.attr >= ge.value
        /\ ge.attr < ge.value => ge.err = PredicateErr

\* C6: the witness update fails with "Claim revoked" whenever claim.i is not
\* in accum.V, whatever witness.V is; add_sub_proof_request for a credential
\* with revocation whose index is revoked returns that error and leaves
\* init_proofs, c_list and tau_list as they were.
C6_RevokedClaim ==
    \A i \in DOMAIN calls :
        LET c == calls[i]
        IN (CallHadRevocation(c) /\ Unwrap(c.claim.r_claim).i \notin c.accum.v) =>
              /\ c.err = RevokedErr
              /\ BuilderAfter(i) = c.pre
              /\ \A W \in SUBSET (1..c.accum.max_claim_num) :
                    LET rc == [Unwrap(c.claim.r_claim) EXCEPT !.witness.v = W]
                    IN update_non_revocation_claim(rc, c.accum, r_reg.tails.tails_dash)
                         = {[r_claim |-> rc, err |-> RevokedErr]}

\* a call for a revoked credential, made on a builder that already held a sub-proof
C6_Witness ==
    \E i \in DOMAIN calls :
        /\ calls[i].err = RevokedErr
        /\ calls[i].pre.c_list # <<>>
        /\ DOMAIN calls[i].pre.init_proofs # {}

\* C7: the witness update is idempotent: with witness.V = accum.V it changes
\* neither witness.V nor witness.omega, and after a successful update another
\* update against the same accumulator leaves the witness as the first left it.
C7_UpdateIdempotent ==
    (wit.n > 0 /\ wit.err = OkS) =>
        /\ wit.pre.witness.v = wit.accum.v => wit.r_claim = wit.pre
        /\ \A out \in update_non_revocation_claim(wit.r_claim, wit.accum, r_reg.tails.tails_dash) :
              out.err = OkS /\ out.r_claim = wit.r_claim

\* an update that replaced both witness.V and witness.omega
C7_Witness ==
    /\ wit.n > 0 /\ wit.err = OkS
    /\ wit.r_claim.witness.v # wit.pre.witness.v
    /\ wit.r_claim.witness.omega # wit.pre.witness.omega

\* the concatenation of what the calls before the last finalize appended
RECURSIVE AppendedC(_, _)
AppendedC(i, limit) ==
    IF i > Len(calls) THEN <<>>
    ELSE (IF calls[i].finalized < limit THEN calls[i].nr_c \o calls[i].p_c ELSE <<>>)
         \o AppendedC(i + 1, limit)
RECURSIVE AppendedTau(_, _)
AppendedTau(i, limit) ==
    IF i > Len(calls) THEN <<>>
    ELSE (IF calls[i].finalized < limit THEN calls[i].nr_tau \o calls[i].p_tau ELSE <<>>)
         \o AppendedTau(i + 1, limit)

\* C8: finalize hashes every tau_list entry, then every c_list entry, then the
\* nonce, each buffer in the order in which the calls appended to it; the one
\* c_h is used for the responses of every sub-proof and is emitted as c_hash,
\* and the emitted c_list is the builder's.
C8_SingleChallenge ==
    (fin.n > 0 /\ fin.err = OkS) =>
        LET p == Unwrap(fin.proof)
            b == fin.builder
            tau == AppendedTau(1, fin.n)
            cl == AppendedC(1, fin.n)
            c_h == get_hash_as_int(tau \o cl \o <<BnBytes(fin.nonce)>>)
        IN /\ b.tau_list = tau
           /\ b.c_list = cl
           /\ p.aggregated_proof.c_hash = c_h
           /\ p.aggregated_proof.c_list = b.c_list
           /\ DOMAIN p.proofs = DOMAIN b.init_proofs
           /\ \A k \in DOMAIN p.proofs :
                LET init == b.init_proofs[k]
                    eq_init == init.primary_init_proof.eq_proof
                    eq == p.proofs[k].primary_proof.eq_proof
                IN /\ eq.m1 = c_h * MasterSecret.ms + eq_init.m1_tilde
                   /\ eq.e = c_h * eq_init.e_prime + eq_init.e_tilde
                   /\ eq.v = c_h * eq_init.v_prime + eq_init.v_tilde
                   /\ \A g \in 1..Len(init.primary_init_proof.ge_proofs) :
                        \A it \in IterKeys :
                            p.proofs[k].primary_proof.ge_proofs[g].u[it]
                              = c_h * init.primary_init_proof.ge_proofs[g].u[it]
                                  + init.primary_init_proof.ge_proofs[g].u_tilde[it]
                   /\ IsSome(init.non_revoc_init_proof) =>
                        LET nr == Unwrap(init.non_revoc_init_proof)
                        IN Unwrap(p.proofs[k].non_revoc_proof).x_list.rho
                             = (nr.tau_list_params.rho + q * q
                                  - (c_h % q) * nr.c_list_params.rho) % q

\* a proof with two sub-proofs, one of them with a non-revocation proof
C8_Witness ==
    /\ fin.n > 0 /\ fin.err = OkS
    /\ Cardinality(DOMAIN Unwrap(fin.proof).proofs) = 2
    /\ \E k \in DOMAIN Unwrap(fin.proof).proofs : IsSome(Unwrap(fin.proof).proofs[k].non_revoc_proof)
    /\ Unwrap(fin.proof).aggregated_proof.c_hash # 0

\* C9: finalize consumes the builder: once finalize has returned, the builder
\* serves no further add_sub_proof_request.
C9_FinalizeConsumes ==
    \A i \in DOMAIN calls : calls[i].finalized > 0 => calls[i].err # OkS

\* C10: the sub-proof emitted for a key_id carries a non-revocation proof if
\* and only if r_claim, r_reg and r_key were all present at the call that
\* inserted the key_id; otherwise that call appended no non-revocation entries.
C10_NonRevocPresence ==
    (fin.n > 0 /\ fin.err = OkS) =>
        \A k \in DOMAIN Unwrap(fin.proof).proofs :
            LET mine == {i \in DOMAIN calls : /\ calls[i].key_id = k /\ calls[i].err = OkS
                                              /\ calls[i].finalized < fin.n}
                last == CHOOSE i \in mine : \A j \in mine : j <= i
                c == calls[last]
            IN /\ mine # {}
               /\ IsSome(Unwrap(fin.proof).proofs[k].non_revoc_proof) <=> CallHadRevocation(c)
               /\ ~CallHadRevocation(c) => (c.nr_c = <<>> /\ c.nr_tau = <<>>)
               /\ CallHadRevocation(c) => (Len(c.nr_c) = 7 /\ Len(c.nr_tau) = 8)

\* a proof with one sub-proof that has a non-revocation proof and one without
C10_Witness ==
    /\ fin.n > 0 /\ fin.err = OkS
    /\ \E k \in DOMAIN Unwrap(fin.proof).proofs : IsSome(Unwrap(fin.proof).proofs[k].non_revoc_proof)
    /\ \E k \in DOMAIN Unwrap(fin.proof).proofs : ~IsSome(Unwrap(fin.proof).proofs[k].non_revoc_proof)

\* the sum of u_i * r_i over i in 0..3 of a GE init proof
SumUR(g) ==
    g.u[K(0)] * g.r[K(0)] + g.u[K(1)] * g.r[K(1)] + g.u[K(2)] * g.r[K(2)] + g.u[K(3)] * g.r[K(3)]

\* C11: the equality responses are e = c_h*e' + e_tilde, v = c_h*v' + v_tilde,
\* m1 = c_h*ms + m1_tilde, m2 = c_h*m2 + m2_tilde, a_prime as in the init proof,
\* m[k] = c_h*value[k] + m_tilde[k] for exactly the unrevealed schema
\* attributes, and revealed_attrs[a] = claim_values[a] for exactly the revealed
\* ones, all in unreduced integer arithmetic.
C11_EqResponses ==
    (fin.n > 0 /\ fin.err = OkS) =>
        LET p == Unwrap(fin.proof)
            c_h == p.aggregated_proof.c_hash
        IN \A k \in DOMAIN p.proofs :
              LET init == fin.builder.init_proofs[k]
                  ei == init.primary_init_proof.eq_proof
                  eq == p.proofs[k].primary_proof.eq_proof
                  revealed == init.sub_proof_request.revealed_attrs
                  hidden == init.claim_schema.attrs \ revealed
                  value == init.claim_values.attrs_values
              IN /\ eq.e = c_h * ei.e_prime + ei.e_tilde
                 /\ eq.v = c_h * ei.v_prime + ei.v_tilde
                 /\ eq.m1 = c_h * MasterSecret.ms + ei.m1_tilde
                 /\ eq.m2 = c_h * ei.m2 + ei.m2_tilde
                 /\ eq.a_prime = ei.a_prime
                 /\ DOMAIN eq.m = hidden
                 /\ \A a \in hidden : eq.m[a] = c_h * value[a] + ei.m_tilde[a]
                 /\ DOMAIN eq.revealed_attrs = revealed
                 /\ \A a \in revealed : eq.revealed_attrs[a] = value[a]

\* a finalized sub-proof with a revealed and a hidden attribute whose hidden
\* response is larger than the modulus n
C11_Witness ==
    /\ fin.n > 0 /\ fin.err = OkS
    /\ \E k \in DOMAIN Unwrap(fin.proof).proofs :
          LET eq == Unwrap(fin.proof).proofs[k].primary_proof.eq_proof
          IN /\ DOMAIN eq.revealed_attrs = {"name"}
             /\ eq.m["age"] > pub_key.p_key.n
             /\ Unwrap(fin.proof).aggregated_proof.c_hash > 1

\* C12: the GE responses are u[i] = c_h*u_i + u_tilde_i and
\* r[i] = c_h*r_i + r_tilde_i for i in 0..3, r[DELTA] = c_h*r_DELTA + r_tilde_DELTA,
\* alpha = c_h*(r_DELTA - sum of u_i*r_i) + alpha_tilde, t is the init T map and
\* mj is the equality proof's m[predicate.attr_name]; u has exactly the keys
\* 0..3 and r exactly the keys 0..3 and DELTA.
C12_GeResponses ==
    (fin.n > 0 /\ fin.err = OkS) =>
        LET p == Unwrap(fin.proof)
            c_h == p.aggregated_proof.c_hash
        IN \A k \in DOMAIN p.proofs :
              LET gi == fin.builder.init_proofs[k].primary_init_proof.ge_proofs
                  gp == p.proofs[k].primary_proof.ge_proofs
              IN /\ Len(gp) = Len(gi)
                 /\ \A j \in 1..Len(gi) :
                      /\ DOMAIN gp[j].u = {"0", "1", "2", "3"}
                      /\ DOMAIN gp[j].r = {"0", "1", "2", "3", "DELTA"}
                      /\ \A i \in {"0", "1", "2", "3"} :
                            /\ gp[j].u[i] = c_h * gi[j].u[i] + gi[j].u_tilde[i]
                            /\ gp[j].r[i] = c_h * gi[j].r[i] + gi[j].r_tilde[i]
                      /\ gp[j].r["DELTA"] = c_h * gi[j].r["DELTA"] + gi[j].r_tilde["DELTA"]
                      /\ gp[j].alpha = c_h * (gi[j].r["DELTA"] - SumUR(gi[j])) + gi[j].alpha_tilde
                      /\ gp[j].t = gi[j].t
                      /\ gp[j].mj = p.proofs[k].primary_proof.eq_proof.m[gi[j].predicate.attr_name]
                      /\ gp[j].predicate = gi[j].predicate

\* a finalized GE proof with c_h > 1 and a non-zero sum of u_i*r_i
C12_Witness ==
    /\ fin.n > 0 /\ fin.err = OkS
    /\ Unwrap(fin.proof).aggregated_proof.c_hash > 1
    /\ \E k \in DOMAIN Unwrap(fin.proof).proofs :
          /\ Len(Unwrap(fin.proof).proofs[k].primary_proof.ge_proofs) = 1
          /\ SumUR(fin.builder.init_proofs[k].primary_init_proof.ge_proofs[1]) > 0

\* C13: every scalar of the non-revocation x_list is
\* (tau_list_params[k] - (c_h mod q) * c_list_params[k]) mod q for the scalar at
\* the same position of the two parameter lists, none dropped or reordered, and
\* the proof's c_list is the init proof's c_list.
C13_NonRevocResponses ==
    (fin.n > 0 /\ fin.err = OkS) =>
        LET p == Unwrap(fin.proof)
            c_h == p.aggregated_proof.c_hash
        IN \A k \in DOMAIN p.proofs :
              IsSome(fin.builder.init_proofs[k].non_revoc_init_proof) =>
                 LET nr == Unwrap(fin.builder.init_proofs[k].non_revoc_init_proof)
                     np == Unwrap(p.proofs[k].non_revoc_proof)
                     fields == {"rho", "r", "r_prime", "r_prime_prime", "r_prime_prime_prime",
                                "o", "o_prime", "m", "m_prime", "t", "t_prime", "m2", "s", "c"}
                 IN /\ DOMAIN np.x_list = fields
                    /\ DOMAIN nr.tau_list_params = fields
                    /\ DOMAIN nr.c_list_params = fields
                    /\ \A f \in fields :
                          np.x_list[f]
                            = (nr.tau_list_params[f] + q * q - (c_h % q) * nr.c_list_params[f]) % q
                    /\ np.c_list = nr.c_list

\* a finalized non-revocation proof whose challenge is not a multiple of q and
\* that has a response different from its tau parameter
C13_Witness ==
    /\ fin.n > 0 /\ fin.err = OkS
    /\ Unwrap(fin.proof).aggregated_proof.c_hash % q # 0
    /\ \E k \in DOMAIN Unwrap(fin.proof).proofs :
          /\ IsSome(Unwrap(fin.proof).proofs[k].non_revoc_proof)
          /\ Unwrap(Unwrap(fin.proof).proofs[k].non_revoc_proof).x_list.rho
               # Unwrap(fin.builder.init_proofs[k].non_revoc_init_proof).tau_list_params.rho

\* C14, as stated: for every revocation claim on which the three pairing
\* identities of process_claim_signature hold, the tau-list computed from the
\* C-list parameters equals the expected tau-list, component by component.
C14_RoundTripOfAcceptedClaims ==
    ctau.n > 0 => ctau.proof_tau_list = ctau.proof_tau_list_calc

\* the claim is one an honest issuer forms: its g_i is its witness's g_i and
\* its witness's u_i is to u as g_i is to g
WellFormedWitness(rc, pkr) ==
    /\ rc.g_i = rc.witness.g_i
    /\ Pair(rc.g_i, pkr.u) = Pair(pkr.g, rc.witness.u_i)

\* C14, amended: for every revocation claim on which the three pairing
\* identities hold and whose witness is well formed (g_i = witness.g_i and
\* e(g_i, u) = e(g, witness.u_i)), the computed tau-list equals the expected
\* one in t1..t8, with t1 = E, t5 = D and t2 = t6 = the point at infinity.
C14_RoundTrip ==
    (ctau.n > 0 /\ WellFormedWitness(ctau.r_claim, Unwrap(pub_key.r_key))) =>
        /\ \A t \in {"t1", "t2", "t3", "t4", "t5", "t6", "t7", "t8"} :
              ctau.proof_tau_list[t] = ctau.proof_tau_list_calc[t]
        /\ ctau.proof_tau_list.t1 = ctau.proof_c_list.e
        /\ ctau.proof_tau_list.t5 = ctau.proof_c_list.d
        /\ ctau.proof_tau_list.t2 = PointInf
        /\ ctau.proof_tau_list.t6 = PointInf
        /\ ctau.c_list_params.m = mul_mod(ctau.c_list_params.rho, ctau.r_claim.c)
        /\ ctau.c_list_params.s = ctau.r_claim.vr_prime_prime

\* the round trip of a well-formed claim other than the issued one, with
\* non-trivial parameters
C14_Witness ==
    /\ ctau.n > 0
    /\ WellFormedWitness(ctau.r_claim, Unwrap(pub_key.r_key))
    /\ ctau.r_claim.g_i # IssuedRevocationClaim.g_i
    /\ ctau.c_list_params.rho # 0 /\ ctau.c_list_params.r # 0
    /\ ctau.proof_tau_list.t3 # 0 /\ ctau.proof_tau_list.t8 # 0

\* C16: blinded_master_secret returns U = (s^v' * rms^ms) mod n for the v' it
\* returns, and Ur and vr' are both present, with Ur = h2*vr', when
\* pub_key.r_key is present and both absent when it is absent.
C16_BlindedMasterSecret ==
    bms.n > 0 =>
        LET pk == pub_key.p_key
        IN /\ bms.secret.u = (mod_exp(pk.s, bms.data.v_prime, pk.n)
                                * mod_exp(pk.rms, bms.ms, pk.n)) % pk.n
           /\ bms.data.v_prime \in 0..(Pow2(LARGE_VPRIME) - 1)
           /\ IsSome(bms.secret.ur) <=> IsSome(pub_key.r_key)
           /\ IsSome(bms.data.vr_prime) <=> IsSome(pub_key.r_key)
           /\ IsSome(pub_key.r_key) =>
                /\ Unwrap(bms.data.vr_prime) \in 0..(q - 1)
                /\ Unwrap(bms.secret.ur)
                     = PointMul(Unwrap(pub_key.r_key).h2, Unwrap(bms.data.vr_prime))
           /\ bmsd = bms.data

\* a blinding with a revocation key whose product s^v' * rms^ms exceeds n
C16_Witness ==
    /\ bms.n > 0 /\ IsSome(pub_key.r_key) /\ IsSome(bms.secret.ur)
    /\ mod_exp(pub_key.p_key.s, bms.data.v_prime, pub_key.p_key.n)
         * mod_exp(pub_key.p_key.rms, bms.ms, pub_key.p_key.n) > pub_key.p_key.n
    /\ Unwrap(bms.data.vr_prime) # 0

\* the credential of a call is valid: the CL signature equation holds on it
\* and, when the call has a revocation part, the claim passes the prover's
\* pairing checks against the accumulator of the call, with a well-formed and
\* current witness
ValidCredential(c) ==
    /\ SignatureEquation(pub_key.p_key, c.claim.p_claim, MasterSecret.ms, ClaimValuesFull, ClaimSchema)
    /\ CallHadRevocation(c) =>
         /\ PassesWitnessCheck(Unwrap(c.claim.r_claim), Unwrap(pub_key.r_key),
                               [r_reg EXCEPT !.acc = c.accum])
         /\ WellFormedWitness(Unwrap(c.claim.r_claim), Unwrap(pub_key.r_key))
         /\ Unwrap(c.claim.r_claim).witness.v = c.accum.v

\* the successful add_sub_proof_request calls before the last finalize
SuccessfulCalls == {i \in DOMAIN calls : calls[i].err = OkS /\ calls[i].finalized < fin.n}

\* the tau-list that the verifier rebuilds from the proof of the last finalize:
\* the entries of the sub-proof of each successful call from number i on
RECURSIVE ReconstructedTau(_)
ReconstructedTau(i) ==
    IF i > Len(calls) THEN <<>>
    ELSE (IF i \in SuccessfulCalls
          THEN verify_sub_proof(pub_key, calls[i].accum, r_reg.key,
                                Unwrap(fin.proof).proofs[calls[i].key_id],
                                Unwrap(fin.proof).aggregated_proof.c_hash, ClaimSchema)
          ELSE <<>>)
         \o ReconstructedTau(i + 1)

\* C15: for every proof that finalize returns on init states that
\* add_sub_proof_request produced from valid credentials, the tau-list rebuilt
\* from the responses and c_h is the tau-list that was hashed, and the hash of
\* the rebuilt tau-list, the c_list and the nonce is the c_h of the proof.
C15_TauReconstruction ==
    (/\ fin.n > 0 /\ fin.err = OkS
     /\ \A i \in SuccessfulCalls : ValidCredential(calls[i])
     /\ \A i \in DOMAIN calls : calls[i].finalized < fin.n => calls[i].err = OkS) =>
        /\ ReconstructedTau(1) = fin.builder.tau_list
        /\ get_hash_as_int(ReconstructedTau(1) \o Unwrap(fin.proof).aggregated_proof.c_list
                             \o <<BnBytes(fin.nonce)>>)
             = Unwrap(fin.proof).aggregated_proof.c_hash

\* C15 for the builders on which every call succeeded and no key_id was used
\* twice: there the rebuilt tau-list is the hashed one
C15_TauReconstructionOfDistinctKeys ==
    (/\ fin.n > 0 /\ fin.err = OkS
     /\ \A i \in SuccessfulCalls : ValidCredential(calls[i])
     /\ \A i \in DOMAIN calls : calls[i].finalized < fin.n => calls[i].err = OkS
     /\ \A i, j \in SuccessfulCalls : calls[i].key_id = calls[j].key_id => i = j) =>
        /\ ReconstructedTau(1) = fin.builder.tau_list
        /\ get_hash_as_int(ReconstructedTau(1) \o Unwrap(fin.proof).aggregated_proof.c_list
                             \o <<BnBytes(fin.nonce)>>)
             = Unwrap(fin.proof).aggregated_proof.c_hash

\* two sub-proofs of valid credentials, one with a non-revocation proof and a
\* GE proof, rebuilt to the hashed tau-list
C15_DistinctKeysReached ==
    /\ fin.n > 0 /\ fin.err = OkS
    /\ Cardinality(SuccessfulCalls) = 2
    /\ \A i \in DOMAIN calls : calls[i].finalized < fin.n => calls[i].err = OkS
    /\ \A i \in SuccessfulCalls : ValidCredential(calls[i])
    /\ \A i, j \in SuccessfulCalls : calls[i].key_id = calls[j].key_id => i = j
    /\ \E i \in SuccessfulCalls :
          /\ CallHadRevocation(calls[i])
          /\ calls[i].sub_proof_request.predicates # <<>>
    /\ Unwrap(fin.proof).aggregated_proof.c_hash > 1

\* two successful calls on valid credentials under one key_id, finalized: the
\* hashed tau-list holds the entries of both calls, the proof one sub-proof
C15_DuplicateKeyReached ==
    /\ fin.n > 0 /\ fin.err = OkS
    /\ Cardinality(SuccessfulCalls) = 2
    /\ \A i \in DOMAIN calls : calls[i].finalized < fin.n => calls[i].err = OkS
    /\ \A i \in SuccessfulCalls : ValidCredential(calls[i])
    /\ \A i, j \in SuccessfulCalls : calls[i].key_id = calls[j].key_id
    /\ ReconstructedTau(1) # fin.builder.tau_list

\* s is a prefix of t
IsPrefix(s, t) == Len(s) <= Len(t) /\ SubSeq(t, 1, Len(s)) = s

\* the c_list and tau_list entries of the non-revocation part of an InitProof
NonRevocCOf(init_proof) ==
    IF IsSome(init_proof.non_revoc_init_proof)
    THEN non_revoc_as_c_list(Unwrap(init_proof.non_revoc_init_proof)) ELSE <<>>
NonRevocTauOf(init_proof) ==
    IF IsSome(init_proof.non_revoc_init_proof)
    THEN non_revoc_as_tau_list(Unwrap(init_proof.non_revoc_init_proof)) ELSE <<>>

\* C17: c_list and tau_list are append-only: over every step (a successful or
\* failing add_sub_proof_request, a finalize) the old contents of each buffer
\* are a prefix of the new contents; and a successful add_sub_proof_request
\* leaves each buffer as the old contents, then the entries of the
\* non-revocation init proof (present exactly when revocation applies), then
\* the entries of the primary init proof.
C17_AppendOnly ==
    /\ [][/\ IsPrefix(builder.c_list, builder'.c_list)
          /\ IsPrefix(builder.tau_list, builder'.tau_list)]_vars
    /\ [](\A i \in DOMAIN calls :
            calls[i].err = OkS =>
               LET init_proof == BuilderAfter(i).init_proofs[calls[i].key_id]
               IN /\ IsSome(init_proof.non_revoc_init_proof) <=> CallHadRevocation(calls[i])
                  /\ BuilderAfter(i).c_list
                       = calls[i].pre.c_list \o NonRevocCOf(init_proof)
                           \o primary_as_c_list(init_proof.primary_init_proof)
                  /\ BuilderAfter(i).tau_list
                       = calls[i].pre.tau_list \o NonRevocTauOf(init_proof)
                           \o primary_as_tau_list(init_proof.primary_init_proof))

\* a successful call with a revocation part and a GE predicate appended to
\* buffers that an earlier failing call had already filled in part
C17_Witness ==
    /\ Len(calls) = 2
    /\ calls[1].err # OkS /\ calls[1].pre.c_list = <<>> /\ calls[2].pre.c_list # <<>>
    /\ calls[2].err = OkS /\ CallHadRevocation(calls[2])
    /\ calls[2].sub_proof_request.predicates # <<>>
    /\ Len(builder.c_list) > Len(calls[2].pre.c_list) + 7

\* the errors of _init_non_revocation_proof (from the witness update) and of
\* _init_primary_proof (from _init_ge_proof)
NonRevocInitErrors == {RevokedErr, TailsErr}
PrimaryInitErrors == {ValueNotFoundErr, InvalidFormatErr, PredicateErr, MtildeErr}

\* the builder after call c is the builder before it, with the entries of the
\* non-revocation init proof of that call appended to c_list and tau_list
PartiallyFilled(c, after) ==
    \E nr \in init_non_revocation_proof(Unwrap(c.claim.r_claim), [r_reg EXCEPT !.acc = c.accum],
                                        Unwrap(pub_key.r_key), c.seed) :
       /\ nr.err = OkS
       /\ after.c_list = c.pre.c_list \o non_revoc_as_c_list(Unwrap(nr.val))
       /\ after.tau_list = c.pre.tau_list \o non_revoc_as_tau_list(Unwrap(nr.val))
       /\ Len(after.c_list) = Len(c.pre.c_list) + 7
       /\ Len(after.tau_list) = Len(c.pre.tau_list) + 8

\* C18 as stated: after a failure in the primary init of a call whose
\* non-revocation init succeeded, c_list and tau_list hold that call's
\* non-revocation entries and init_proofs has no entry for the key_id; after a
\* failure in the non-revocation init, or in the primary init of a call without
\* revocation, the builder is unchanged.
C18_NoEntryForKey ==
    \A i \in DOMAIN calls :
        calls[i].err # OkS =>
            IF CallHadRevocation(calls[i]) /\ calls[i].err \in PrimaryInitErrors
            THEN /\ PartiallyFilled(calls[i], BuilderAfter(i))
                 /\ calls[i].key_id \notin DOMAIN BuilderAfter(i).init_proofs
            ELSE BuilderAfter(i) = calls[i].pre

\* C18: after a failure in the primary init of a call whose non-revocation
\* init succeeded, c_list and tau_list hold that call's non-revocation entries
\* and init_proofs and m1_tilde are as before the call (so init_proofs has no
\* entry made by this call); after a failure in the non-revocation init, or in
\* the primary init of a call without revocation, the builder is unchanged.
C18_PartialFill ==
    \A i \in DOMAIN calls :
        calls[i].err # OkS =>
            IF CallHadRevocation(calls[i]) /\ calls[i].err \in PrimaryInitErrors
            THEN /\ PartiallyFilled(calls[i], BuilderAfter(i))
                 /\ BuilderAfter(i).init_proofs = calls[i].pre.init_proofs
                 /\ BuilderAfter(i).m1_tilde = calls[i].pre.m1_tilde
            ELSE BuilderAfter(i) = calls[i].pre

\* the three kinds of failure have happened: in the primary init after the
\* non-revocation init (under a key_id that an earlier call had filled), in
\* the primary init without revocation, and in the non-revocation init
C18_Witness ==
    /\ Len(calls) = 2 /\ calls[1].err = OkS /\ calls[2].err = PredicateErr
    /\ CallHadRevocation(calls[2]) /\ calls[2].key_id = calls[1].key_id
    /\ calls[2].key_id \in DOMAIN builder.init_proofs
    /\ Len(builder.c_list) = Len(calls[2].pre.c_list) + 7

\* a failure in the non-revocation init and a failure in the primary init of
\* a call without revocation
C18_UnchangedReached ==
    /\ Len(calls) = 2
    /\ calls[1].err \in NonRevocInitErrors /\ CallHadRevocation(calls[1])
    /\ calls[2].err \in PrimaryInitErrors /\ ~CallHadRevocation(calls[2])

\* the GE init proof kept in ge is as lines 361-398 build it for delta
GeInitProofFor(delta) ==
    LET g == Unwrap(ge.proof)
        pk == pub_key.p_key
        T(i) == (mod_exp(pk.z, g.u[K(i)], pk.n) * mod_exp(pk.s, g.r[K(i)], pk.n)) % pk.n
    IN /\ DOMAIN g.u = {"0", "1", "2", "3"}
       /\ \A k \in DOMAIN g.u : g.u[k] >= 0
       /\ g.u["0"] * g.u["0"] + g.u["1"] * g.u["1"] + g.u["2"] * g.u["2"] + g.u["3"] * g.u["3"]
            = delta
       /\ delta = 10 => g.u = [k \in {"0", "1", "2", "3"} |->
                                  IF k = "0" THEN 3 ELSE IF k = "1" THEN 1 ELSE 0]
       /\ DOMAIN g.t = {"0", "1", "2", "3", "DELTA"} /\ DOMAIN g.r = DOMAIN g.t
       /\ \A i \in 0..3 : g.t[K(i)] = T(i)
       /\ g.t["DELTA"] = (mod_exp(pk.z, delta, pk.n) * mod_exp(pk.s, g.r["DELTA"], pk.n)) % pk.n
       /\ g.c_list = <<g.t["0"], g.t["1"], g.t["2"], g.t["3"], g.t["DELTA"]>>

\* C19: for every delta = attr - v >= 0 the GE init stores a four-squares
\* decomposition u with exactly the keys 0..3 whose squares add up to delta
\* (3, 1, 0, 0 for delta = 10), the commitments T_i = z^(u_i) * s^(r_i) mod n
\* and T_DELTA = z^delta * s^(r_DELTA) mod n, and the c_list T_0, T_1, T_2,
\* T_3, T_DELTA.
C19_FourSquares ==
    (ge.n > 0 /\ ge.attr >= ge.value) =>
        /\ ge.err = OkS /\ IsSome(ge.proof)
        /\ GeInitProofFor(ge.attr - ge.value)

\* C19 for the calls in which attr - v is an i32: there the init succeeds
\* exactly when attr >= v and stores the decomposition and the commitments
C19_FourSquaresWithoutOverflow ==
    (ge.n > 0 /\ (ge.value >= 0 \/ ge.attr <= MaxI32 + ge.value)) =>
        /\ ge.attr >= ge.value <=> ge.err = OkS
        /\ ge.err = OkS <=> IsSome(ge.proof)
        /\ ge.err = OkS => GeInitProofFor(ge.attr - ge.value)

\* the decomposition of the test vector: age 28 against 18
C19_TestVectorReached ==
    /\ ge.n > 0 /\ ge.err = OkS /\ ge.attr = 28 /\ ge.value = 18
    /\ Unwrap(ge.proof).u["0"] = 3 /\ Unwrap(ge.proof).u["1"] = 1

\* a satisfied predicate whose difference attr - v is 2^31: no proof is stored
C19_OverflowReached ==
    /\ ge.n > 0 /\ ge.attr = MaxI32 /\ ge.value = -1
    /\ ge.err # OkS /\ ~IsSome(ge.proof)

\* the errors of kind InvalidStructure
InvalidStructureErrors ==
    {IssuerErr, PredicateErr, TailsErr, ValueNotFoundErr, InvalidFormatErr, MtildeErr}

\* the predicate p of call c names an attribute that is missing from the claim
\* values, or whose value is no i32, or that has no m_tilde entry
NoValue(c, p) == p.attr_name \notin DOMAIN c.claim_values.attrs_values
NoI32(c, p) == p.attr_name \in c.claim_values.wide
NoMtilde(c, p) ==
    \/ p.attr_name \in c.sub_proof_request.revealed_attrs
    \/ p.attr_name \notin ClaimSchema.attrs
BadPredicate(c) ==
    \E j \in DOMAIN c.sub_proof_request.predicates :
        LET p == c.sub_proof_request.predicates[j]
        IN NoValue(c, p) \/ NoI32(c, p) \/ NoMtilde(c, p)

\* in every InitProof held, each GE init proof belongs to the predicate of the
\* same position, whose attribute is an unrevealed schema attribute, and its
\* tau_list is calc_tge with the m_tilde of that attribute
HeldPredicatesBound(b) ==
    \A k \in DOMAIN b.init_proofs :
        LET ip == b.init_proofs[k]
            ps == ip.sub_proof_request.predicates
            gs == ip.primary_init_proof.ge_proofs
        IN /\ Len(gs) = Len(ps)
           /\ \A j \in DOMAIN ps :
                 /\ gs[j].predicate = ps[j]
                 /\ ps[j].attr_name \in ip.claim_schema.attrs \ ip.sub_proof_request.revealed_attrs
                 /\ ps[j].attr_name \in DOMAIN ip.primary_init_proof.eq_proof.m_tilde
                 /\ gs[j].tau_list
                      = calc_tge(pub_key.p_key, gs[j].u_tilde, gs[j].r_tilde,
                                 ip.primary_init_proof.eq_proof.m_tilde[ps[j].attr_name],
                                 gs[j].alpha_tilde, gs[j].t)

C20_MissingValueReached == \E i \in DOMAIN calls : calls[i].err = ValueNotFoundErr
C20_InvalidFormatReached == \E i \in DOMAIN calls : calls[i].err = InvalidFormatErr
C20_RevealedReached ==
    \E i \in DOMAIN calls :
        /\ calls[i].err = MtildeErr
        /\ calls[i].sub_proof_request.predicates[1].attr_name \in calls[i].sub_proof_request.revealed_attrs
C20_ForeignReached ==
    \E i \in DOMAIN calls :
        /\ calls[i].err = MtildeErr
        /\ calls[i].sub_proof_request.predicates[1].attr_name \notin ClaimSchema.attrs

\* the tail keys that the update held in wit had to look up
RequiredTailKeys ==
    {wit.accum.max_claim_num + 1 - j + wit.pre.i : j \in wit.pre.witness.v \ wit.accum.v}

\* C21: an update that needs a tail point whose key is missing from tails
\* fails with InvalidStructure("Key not found ... in tails") and leaves the
\* witness as it was; a witness is replaced only when every required key was
\* found.
C21_MissingTail ==
    (wit.n > 0 /\ wit.pre.i \in wit.accum.v /\ wit.pre.witness.v # wit.accum.v) =>
        /\ (\E k \in RequiredTailKeys : k \notin DOMAIN r_reg.tails.tails_dash) =>
              /\ wit.err = TailsErr
              /\ wit.r_claim = wit.pre
        /\ wit.r_claim.witness # wit.pre.witness =>
              /\ wit.err = OkS
              /\ RequiredTailKeys \subseteq DOMAIN r_reg.tails.tails_dash

\* an update that found one of its two keys and missed the other
C21_Witness ==
    /\ wit.n > 0 /\ wit.err = TailsErr
    /\ wit.r_claim.witness.v = wit.pre.witness.v /\ wit.pre.witness.v # wit.accum.v
    /\ \E k \in RequiredTailKeys : k \notin DOMAIN r_reg.tails.tails_dash
    /\ \E k \in RequiredTailKeys : k \in DOMAIN r_reg.tails.tails_dash

\* C22: in every InitProof held that has a non-revocation init proof, the
\* equality init's m2_tilde is that proof's tau_list_params.m2 as a big
\* integer; an InitProof without one has the m2_tilde that its own call drew
\* (a LARGE_MVECT-bit value).
C22_SharedM2Tilde ==
    /\ \A k \in DOMAIN builder.init_proofs :
          LET ip == builder.init_proofs[k]
          IN IsSome(ip.non_revoc_init_proof) =>
                ip.primary_init_proof.eq_proof.m2_tilde
                  = group_element_to_bignum(Unwrap(ip.non_revoc_init_proof).tau_list_params.m2)
    /\ \A i \in DOMAIN calls :
          (calls[i].err = OkS /\ ~CallHadRevocation(calls[i])) =>
             LET ip == BuilderAfter(i).init_proofs[calls[i].key_id]
             IN /\ ~IsSome(ip.non_revoc_init_proof)
                /\ ip.primary_init_proof.eq_proof.m2_tilde = bn_rand(calls[i].seed, 1, LARGE_MVECT)
                /\ ip.primary_init_proof.eq_proof.m2_tilde \in 0..(Pow2(LARGE_MVECT) - 1)

\* the builder holds an InitProof with a non-revocation part and one without,
\* and the first one's m2_tilde is not what its own call would have drawn
C22_Witness ==
    /\ \E k \in DOMAIN builder.init_proofs : ~IsSome(builder.init_proofs[k].non_revoc_init_proof)
    /\ \E i \in DOMAIN calls :
          /\ calls[i].err = OkS /\ CallHadRevocation(calls[i]) /\ i = Len(calls)
          /\ IsSome(builder.init_proofs[calls[i].key_id].non_revoc_init_proof)
          /\ builder.init_proofs[calls[i].key_id].primary_init_proof.eq_proof.m2_tilde
               # bn_rand(calls[i].seed, 1, LARGE_MVECT)

\* C23: m1_tilde never changes after the builder was created; every InitProof
\* held has the builder's m1_tilde in its equality init; and every sub-proof
\* of a Proof carries the response m1 = c_h * ms + m1_tilde.
C23_OneM1Tilde ==
    /\ [][builder'.m1_tilde = builder.m1_tilde]_vars
    /\ [](\A k \in DOMAIN builder.init_proofs :
             builder.init_proofs[k].primary_init_proof.eq_proof.m1_tilde = builder.m1_tilde)
    /\ []((fin.n > 0 /\ fin.err = OkS) =>
             /\ fin.builder.m1_tilde = builder.m1_tilde
             /\ \A k \in DOMAIN Unwrap(fin.proof).proofs :
                   Unwrap(fin.proof).proofs[k].primary_proof.eq_proof.m1
                     = Unwrap(fin.proof).aggregated_proof.c_hash * MasterSecret.ms
                         + builder.m1_tilde)

\* a Proof with two sub-proofs made from calls with different draws
C23_Witness ==
    /\ fin.n > 0 /\ fin.err = OkS
    /\ Cardinality(DOMAIN Unwrap(fin.proof).proofs) = 2
    /\ Len(calls) = 2 /\ calls[1].seed # calls[2].seed
    /\ Unwrap(fin.proof).aggregated_proof.c_hash > 0

\* C24: after any number of process_claim_signature calls on an issued claim
\* with the same blinding data, p_claim.v is the issued v plus v': the blinding
\* factor is folded in once.
C24_UnblindedOnce ==
    pcs.n > 0 => claim.p_claim.v = pcs.issued.p_claim.v + bmsd.v_prime

\* what the code does: every call adds v' again
C24_UnblindedPerCall ==
    claim.p_claim.v = pcs.issued.p_claim.v + pcs.n * bmsd.v_prime

\* two calls on one claim, both returning Ok, have added v' twice
C24_TwiceReached ==
    /\ pcs.n = 2 /\ pcs.err = OkS
    /\ claim.p_claim.v = pcs.issued.p_claim.v + 2 * bmsd.v_prime
    /\ pcs.pre.p_claim.v = pcs.issued.p_claim.v + bmsd.v_prime

\* call number i made the InitProof that the builder holds under its key_id
HoldsProofOf(i) == \A j \in DOMAIN calls : (j > i /\ calls[j].err = OkS) => calls[j].key_id # calls[i].key_id

\* the commitments of the InitProofs held, in the order of the calls that made them
RECURSIVE HeldC(_)
HeldC(i) ==
    IF i > Len(calls) THEN <<>>
    ELSE (IF calls[i].err = OkS /\ HoldsProofOf(i)
          THEN LET ip == builder.init_proofs[calls[i].key_id]
               IN NonRevocCOf(ip) \o primary_as_c_list(ip.primary_init_proof)
          ELSE <<>>) \o HeldC(i + 1)
RECURSIVE HeldTau(_)
HeldTau(i) ==
    IF i > Len(calls) THEN <<>>
    ELSE (IF calls[i].err = OkS /\ HoldsProofOf(i)
          THEN LET ip == builder.init_proofs[calls[i].key_id]
               IN NonRevocTauOf(ip) \o primary_as_tau_list(ip.primary_init_proof)
          ELSE <<>>) \o HeldTau(i + 1)

AllCallsOk == \A i \in DOMAIN calls : calls[i].err = OkS

\* C25: after any sequence of successful add_sub_proof_request calls the
\* builder holds one InitProof per call, and c_list and tau_list are the
\* concatenation of the commitments of the InitProofs held; also when two
\* calls use the same key_id.
C25_OneInitProofPerCall ==
    AllCallsOk =>
        /\ Cardinality(DOMAIN builder.init_proofs) = Len(calls)
        /\ builder.c_list = HeldC(1)
        /\ builder.tau_list = HeldTau(1)

\* C25 for call sequences in which no key_id is used twice
C25_OneInitProofPerKey ==
    (AllCallsOk /\ \A i, j \in DOMAIN calls : calls[i].key_id = calls[j].key_id => i = j) =>
        /\ Cardinality(DOMAIN builder.init_proofs) = Len(calls)
        /\ builder.c_list = HeldC(1)
        /\ builder.tau_list = HeldTau(1)

\* two successful calls under one key_id: one InitProof is held, and the
\* buffers still hold the commitments of both calls
C25_DuplicateKeyReached ==
    /\ Len(calls) = 2 /\ AllCallsOk /\ calls[1].key_id = calls[2].key_id
    /\ Cardinality(DOMAIN builder.init_proofs) = 1
    /\ Len(builder.c_list) > Len(HeldC(1))
    /\ builder.c_list = calls[2].pre.c_list \o HeldC(1)

\* two successful calls under two key_ids
C25_DistinctKeysReached ==
    /\ Len(calls) = 2 /\ AllCallsOk /\ calls[1].key_id # calls[2].key_id
    /\ Cardinality(DOMAIN builder.init_proofs) = 2 /\ builder.c_list = HeldC(1)

\* every add_sub_proof_request call made before the finalize returned Ok
AllCallsOkBeforeFinalize ==
    \A i \in DOMAIN calls : calls[i].finalized < fin.n => calls[i].err = OkS

\* the claim values of an InitProof hold every schema attribute and every
\* revealed attribute
CompleteClaimValues(ip) ==
    ip.claim_schema.attrs \cup ip.sub_proof_request.revealed_attrs
        \subseteq DOMAIN ip.claim_values.attrs_values

\* C26: if every add_sub_proof_request call on the builder returned Ok, then
\* finalize returns Ok and emits a SubProof for every key_id in init_proofs.
C26_FinalizeSucceeds ==
    (fin.n > 0 /\ AllCallsOkBeforeFinalize) =>
        /\ fin.err = OkS
        /\ DOMAIN Unwrap(fin.proof).proofs = DOMAIN fin.builder.init_proofs

\* what the code does: finalize returns Ok exactly when the claim values of
\* every InitProof held are complete, whatever add_sub_proof_request returned
C26_FinalizeNeedsCompleteValues ==
    fin.n > 0 =>
        /\ fin.err = OkS <=>
             \A k \in DOMAIN fin.builder.init_proofs : CompleteClaimValues(fin.builder.init_proofs[k])
        /\ fin.err = OkS => DOMAIN Unwrap(fin.proof).proofs = DOMAIN fin.builder.init_proofs
        /\ fin.err # OkS => /\ fin.err \in {AttrValueErr, EncodedErr}
                            /\ ~IsSome(fin.proof)

\* a call that returned Ok for claim values without "age", and the finalize
\* after it that failed
C26_LateFailureReached ==
    /\ fin.n > 0 /\ Len(calls) = 1 /\ calls[1].err = OkS /\ calls[1].finalized = 0
    /\ "age" \notin DOMAIN calls[1].claim_values.attrs_values
    /\ fin.err = AttrValueErr

\* a revealed attribute that is missing from the claim values
C26_RevealedMissingReached ==
    /\ fin.n > 0 /\ Len(calls) = 1 /\ calls[1].err = OkS /\ calls[1].finalized = 0
    /\ fin.err = EncodedErr

\* the calls made since the last process_claim_signature
CallsOnClaimHeld == {i \in DOMAIN calls : calls[i].processed = pcs.n}

\* the witness update of call i had work to do: the accumulator had changed
WitnessWasStale(i) ==
    /\ CallHadRevocation(calls[i])
    /\ Unwrap(calls[i].claim.r_claim).witness.v # calls[i].accum.v

\* C27: add_sub_proof_request leaves the caller's ClaimSignature unchanged: the
\* claim every call was given, and the claim held after it, is the claim as
\* process_claim_signature left it, witness.V and witness.omega included, also
\* when the accumulator had changed; a later call starts from the same witness.
C27_CallerClaimUnchanged ==
    \A i \in CallsOnClaimHeld :
        /\ calls[i].claim = claim
        /\ \A j \in CallsOnClaimHeld : calls[j].claim = calls[i].claim
        /\ WitnessWasStale(i) /\ calls[i].err = OkS =>
              /\ Unwrap(claim.r_claim).witness.v # calls[i].accum.v
              /\ Unwrap(claim.r_claim).witness = Unwrap(calls[i].claim.r_claim).witness

\* two calls with the claim held, the first of which returned Ok after
\* updating a stale witness on its copy
C27_Witness ==
    \E i, j \in CallsOnClaimHeld :
        /\ i < j
        /\ WitnessWasStale(i) /\ calls[i].err = OkS
        /\ WitnessWasStale(j) /\ calls[j].err = OkS

\* the indices the update recorded in wit had to remove, and the values of
\* omega that the iteration orders of that set produce
RemovedIndices == wit.pre.witness.v \ wit.accum.v

UpdatedOmegas ==
    {omega_for_order(o, wit.pre.witness.omega, r_reg.tails.tails_dash,
                     wit.accum.max_claim_num, wit.pre.i) : o \in Orders(RemovedIndices)}

\* an update that ran both loops to the end
UpdateRanLoops ==
    /\ wit.n > 0 /\ wit.err = OkS
    /\ wit.pre.witness.v # wit.accum.v

\* C28: the witness update is deterministic: the new omega does not depend on
\* the order in which the elements of V_old minus V_new are enumerated.
C28_OrderIndependent ==
    UpdateRanLoops => Cardinality(UpdatedOmegas) = 1

\* what the code does: with at most one removed index there is one iteration
\* order and one omega; the stored omega is always the one of some order
C28_OneRemovalDeterministic ==
    UpdateRanLoops =>
        /\ wit.r_claim.witness.omega \in UpdatedOmegas
        /\ Cardinality(RemovedIndices) <= 1 => Cardinality(UpdatedOmegas) = 1

\* an update over two removed indices whose two iteration orders give
\* different values of omega
C28_OrderDependentReached ==
    /\ UpdateRanLoops
    /\ Cardinality(RemovedIndices) = 2
    /\ Cardinality(UpdatedOmegas) = 2

\* the tail keys that the update recorded in wit computed, as the code
\* computes them
ComputedTailKeys ==
    {TailKey(wit.accum.max_claim_num, j, wit.pre.i) : j \in RemovedIndices}

\* claim.i and every element of V_old and V_new lie in 1..max_claim_num
IndicesInRange ==
    ({wit.pre.i} \cup wit.pre.witness.v \cup wit.accum.v) \subseteq 1..wit.accum.max_claim_num

\* an update that reached the loops: the claim's index is in V_new and the
\* witness is stale
UpdateReachedLoops ==
    /\ wit.n > 0
    /\ wit.pre.i \in wit.accum.v
    /\ wit.pre.witness.v # wit.accum.v

\* C29: when claim.i and every element of V_old and V_new lie in
\* 1..max_claim_num, every tail key max_claim_num + 1 - j + i that the update
\* computes is computed without leaving the unsigned range at any step, lies
\* in 1..2*max_claim_num and is never max_claim_num + 1.
C29_TailKeyRange ==
    (UpdateReachedLoops /\ IndicesInRange) =>
        \A j \in RemovedIndices :
            LET k == TailKey(wit.accum.max_claim_num, j, wit.pre.i)
            IN /\ ~k.wrapped
               /\ wit.accum.max_claim_num + 1 - j \in 1..wit.accum.max_claim_num
               /\ k.key \in 1..(2 * wit.accum.max_claim_num)
               /\ k.key # wit.accum.max_claim_num + 1
               /\ wit.err # PanicOverflow

\* an update that computed two keys, one below and one above max_claim_num + 1
C29_Witness ==
    /\ UpdateReachedLoops /\ IndicesInRange
    /\ \E k1, k2 \in ComputedTailKeys :
          /\ k1.key < wit.accum.max_claim_num + 1
          /\ k2.key > wit.accum.max_claim_num + 1

\* the last process_claim_signature returned the pairing-check error
PairingCheckFailed == pcs.n > 0 /\ pcs.err = IssuerErr

\* C30: process_claim_signature does not roll back on failure: when it returns
\* "Issuer is sending incorrect data", p_claim.v has been replaced by v' + v
\* and r_claim.vr_prime_prime by (vr' + vr'') mod q, nothing else of the claim
\* has changed, and the updated values are what the claim holds afterwards.
C30_NoRollback ==
    PairingCheckFailed =>
        /\ pcs.ran_nr
        /\ claim.p_claim = [pcs.pre.p_claim EXCEPT !.v = bmsd.v_prime + pcs.pre.p_claim.v]
        /\ IsSome(claim.r_claim) /\ IsSome(pcs.pre.r_claim) /\ IsSome(bmsd.vr_prime)
        /\ Unwrap(claim.r_claim) =
              [Unwrap(pcs.pre.r_claim) EXCEPT
                  !.vr_prime_prime = add_mod(Unwrap(bmsd.vr_prime),
                                             Unwrap(pcs.pre.r_claim).vr_prime_prime)]
        /\ claim # pcs.pre

\* a failed call on a forged claim that left both values changed
C30_Witness ==
    /\ PairingCheckFailed
    /\ pcs.n = 1
    /\ claim.p_claim.v # pcs.pre.p_claim.v
    /\ Unwrap(claim.r_claim).vr_prime_prime # Unwrap(pcs.pre.r_claim).vr_prime_prime

====
